---- MODULE Spec2Model ----
(***************************************************************************)
(* State-machine model of the OpenVPN status exporter                      *)
(* (exporters/openvpn_exporter.go): the format detector, the server and    *)
(* client status decoders, and OpenVPNExporter.Collect.                    *)
(*                                                                         *)
(* Go strings are modelled as sequences of one-character strings, so that  *)
(* strings.Split, bytes.HasPrefix, Peek and strconv.ParseFloat are         *)
(* computed on the characters as the code computes them.                   *)
(***************************************************************************)
EXTENDS Integers, Sequences, FiniteSets, TLC

(***************************************************************************)
(* String literals of the source.                                          *)
(***************************************************************************)
S_END == <<"E","N","D">>
S_GLOBAL_STATS == <<"G","L","O","B","A","L","_","S","T","A","T","S">>
S_HEADER == <<"H","E","A","D","E","R">>
S_TIME == <<"T","I","M","E">>
S_TITLE == <<"T","I","T","L","E">>
S_CLIENT_LIST == <<"C","L","I","E","N","T","_","L","I","S","T">>
S_ROUTING_TABLE == <<"R","O","U","T","I","N","G","_","T","A","B","L","E">>
S_OpenVPN_STATISTICS == <<"O","p","e","n","V","P","N"," ","S","T","A","T","I","S","T","I","C","S">>
S_Updated == <<"U","p","d","a","t","e","d">>
S_Common_Name == <<"C","o","m","m","o","n"," ","N","a","m","e">>
S_Connected_Since == <<"C","o","n","n","e","c","t","e","d"," ","S","i","n","c","e"," ","(","t","i","m","e","_","t",")">>
S_Real_Address == <<"R","e","a","l"," ","A","d","d","r","e","s","s">>
S_Virtual_Address == <<"V","i","r","t","u","a","l"," ","A","d","d","r","e","s","s">>
S_Username == <<"U","s","e","r","n","a","m","e">>
S_Bytes_Received == <<"B","y","t","e","s"," ","R","e","c","e","i","v","e","d">>
S_Bytes_Sent == <<"B","y","t","e","s"," ","S","e","n","t">>
S_Last_Ref == <<"L","a","s","t"," ","R","e","f"," ","(","t","i","m","e","_","t",")">>
S_TUN_TAP_read == <<"T","U","N","/","T","A","P"," ","r","e","a","d"," ","b","y","t","e","s">>
S_TUN_TAP_write == <<"T","U","N","/","T","A","P"," ","w","r","i","t","e"," ","b","y","t","e","s">>
S_TCP_UDP_read == <<"T","C","P","/","U","D","P"," ","r","e","a","d"," ","b","y","t","e","s">>
S_TCP_UDP_write == <<"T","C","P","/","U","D","P"," ","w","r","i","t","e"," ","b","y","t","e","s">>
S_Auth_read == <<"A","u","t","h"," ","r","e","a","d"," ","b","y","t","e","s">>
S_pre_compress == <<"p","r","e","-","c","o","m","p","r","e","s","s"," ","b","y","t","e","s">>
S_post_compress == <<"p","o","s","t","-","c","o","m","p","r","e","s","s"," ","b","y","t","e","s">>
S_pre_decompress == <<"p","r","e","-","d","e","c","o","m","p","r","e","s","s"," ","b","y","t","e","s">>
S_post_decompress == <<"p","o","s","t","-","d","e","c","o","m","p","r","e","s","s"," ","b","y","t","e","s">>
S_Comma == <<",">>
S_Tab == <<"\t">>
S_Newline == <<"\n">>
S_Empty == << >>
S_api == <<"a","p","i">>
S_file == <<"f","i","l","e">>

(***************************************************************************)
(* Bounds of the model.                                                    *)
(***************************************************************************)
\* Lines the environment may reveal in all status files together.
MaxLines == 4
\* The same for status files with repeated client rows.
MaxDedupeLines == 5
\* The same in the run of two concurrent scrapes.
MaxConcLines == 3

(***************************************************************************)
(* Library functions, computed as the Go library computes them.            *)
(***************************************************************************)
Min(a, b) == IF a < b THEN a ELSE b

\* bytes.HasPrefix(s, prefix)
HasPrefix(s, prefix) ==
    /\ Len(s) >= Len(prefix)
    /\ SubSeq(s, 1, Len(prefix)) = prefix

\* Index of the first occurrence of the one-byte separator, 0 when absent.
IndexOf(s, c) ==
    IF \E i \in 1..Len(s) : s[i] = c
    THEN CHOOSE i \in 1..Len(s) : s[i] = c /\ \A j \in 1..(i-1) : s[j] # c
    ELSE 0

RECURSIVE Split(_, _)
\* strings.Split(s, sep) for a one-byte separator: always at least one field.
Split(s, sep) ==
    LET i == IndexOf(s, sep[1])
    IN IF i = 0 THEN << s >>
       ELSE << SubSeq(s, 1, i-1) >> \o Split(SubSeq(s, i+1, Len(s)), sep)

DigitValue ==
    [c \in {"0","1","2","3","4","5","6","7","8","9"} |->
        CASE c = "0" -> 0 [] c = "1" -> 1 [] c = "2" -> 2 [] c = "3" -> 3
          [] c = "4" -> 4 [] c = "5" -> 5 [] c = "6" -> 6 [] c = "7" -> 7
          [] c = "8" -> 8 [] c = "9" -> 9]

RECURSIVE DecimalValue(_)
DecimalValue(s) ==
    IF Len(s) = 0 THEN 0
    ELSE 10 * DecimalValue(SubSeq(s, 1, Len(s)-1)) + DigitValue[s[Len(s)]]

\* Faulty variant: the error does not carry the text it is about.
Error_NoArg(kind, arg) == [kind |-> kind, arg |-> << >>]

\* The nil error and error values; arg carries the text the message quotes.
NilErr == [kind |-> "nil", arg |-> << >>]
Error(kind, arg) == [kind |-> kind, arg |-> arg]

\* Faulty variant: a string that is no number reads as 0, as atof does.
ParseFloat_Lenient(s) ==
    IF Len(s) > 0 /\ \A i \in 1..Len(s) : s[i] \in DOMAIN DigitValue
    THEN [value |-> DecimalValue(s), err |-> [kind |-> "nil", arg |-> << >>]]
    ELSE [value |-> 0, err |-> [kind |-> "nil", arg |-> << >>]]

\* strconv.ParseFloat(s, 64) on the strings the model feeds it: a non-empty
\* run of decimal digits yields its value, the empty string and any string
\* with a character that cannot occur in a number yield a syntax error.
ParseFloat(s) ==
    IF Len(s) > 0 /\ \A i \in 1..Len(s) : s[i] \in DOMAIN DigitValue
    THEN [value |-> DecimalValue(s), err |-> NilErr]
    ELSE [value |-> 0, err |-> Error("ParseFloat", s)]

\* prometheus.NewDesc: the fully qualified name and the variable labels.
NewDesc(fqName, variableLabels) == [fqName |-> fqName, labels |-> variableLabels]

\* prometheus.MustNewConstMetric panics when the number of label values
\* differs from the number of variable labels of the descriptor.
LabelMismatch(desc, labelValues) == Len(labelValues) # Len(desc.labels)

MustNewConstMetric(desc, valueType, value, labelValues) ==
    [desc |-> desc.fqName, vtype |-> valueType, value |-> value, labels |-> labelValues]

(***************************************************************************)
(* NewOpenVPNExporter: the descriptors and the header directive table.     *)
(***************************************************************************)
\* Faulty variant: every traffic counter is exported under one descriptor.
OpenvpnClientDescs_OneDesc ==
    [k \in {S_TUN_TAP_read, S_TUN_TAP_write, S_TCP_UDP_read, S_TCP_UDP_write,
            S_Auth_read, S_pre_compress, S_post_compress, S_pre_decompress,
            S_post_decompress} |->
        NewDesc("openvpn_client_tun_tap_read_bytes_total", <<"status_path">>)]

OpenvpnClientDescs ==
    LET d(name) == NewDesc(name, <<"status_path">>)
    IN [k \in {S_TUN_TAP_read, S_TUN_TAP_write, S_TCP_UDP_read, S_TCP_UDP_write,
               S_Auth_read, S_pre_compress, S_post_compress, S_pre_decompress,
               S_post_decompress} |->
          CASE k = S_TUN_TAP_read     -> d("openvpn_client_tun_tap_read_bytes_total")
            [] k = S_TUN_TAP_write    -> d("openvpn_client_tun_tap_write_bytes_total")
            [] k = S_TCP_UDP_read     -> d("openvpn_client_tcp_udp_read_bytes_total")
            [] k = S_TCP_UDP_write    -> d("openvpn_client_tcp_udp_write_bytes_total")
            [] k = S_Auth_read        -> d("openvpn_client_auth_read_bytes_total")
            [] k = S_pre_compress     -> d("openvpn_client_pre_compress_bytes_total")
            [] k = S_post_compress    -> d("openvpn_client_post_compress_bytes_total")
            [] k = S_pre_decompress   -> d("openvpn_client_pre_decompress_bytes_total")
            [] k = S_post_decompress  -> d("openvpn_client_post_decompress_bytes_total")]

\* Faulty variant: the client metrics always declare the two labels.
ServerHeaderClientLabels_Short(ignoreIndividuals) == <<"status_path", "common_name">>

ServerHeaderClientLabels(ignoreIndividuals) ==
    IF ignoreIndividuals
    THEN <<"status_path", "common_name">>
    ELSE <<"status_path", "common_name", "connection_time", "real_address",
           "virtual_address", "username">>

ServerHeaderClientLabelColumns(ignoreIndividuals) ==
    IF ignoreIndividuals
    THEN << S_Common_Name >>
    ELSE << S_Common_Name, S_Connected_Since, S_Real_Address, S_Virtual_Address,
            S_Username >>

ServerHeaderRoutingLabels(ignoreIndividuals) ==
    IF ignoreIndividuals
    THEN <<"status_path", "common_name">>
    ELSE <<"status_path", "common_name", "real_address", "virtual_address">>

ServerHeaderRoutingLabelColumns(ignoreIndividuals) ==
    IF ignoreIndividuals
    THEN << S_Common_Name >>
    ELSE << S_Common_Name, S_Real_Address, S_Virtual_Address >>

\* Faulty variant: the directives always carry the full identity.
OpenvpnServerHeaders_AlwaysFull(ignoreIndividuals) ==
    [k \in {S_CLIENT_LIST, S_ROUTING_TABLE} |->
        IF k = S_CLIENT_LIST
        THEN [LabelColumns |-> ServerHeaderClientLabelColumns(FALSE),
              Metrics |-> <<
                [Column |-> S_Bytes_Received,
                 Desc |-> NewDesc("openvpn_server_client_received_bytes_total",
                                  ServerHeaderClientLabels(FALSE)),
                 ValueType |-> "counter"],
                [Column |-> S_Bytes_Sent,
                 Desc |-> NewDesc("openvpn_server_client_sent_bytes_total",
                                  ServerHeaderClientLabels(FALSE)),
                 ValueType |-> "counter"] >>]
        ELSE [LabelColumns |-> ServerHeaderRoutingLabelColumns(FALSE),
              Metrics |-> <<
                [Column |-> S_Last_Ref,
                 Desc |-> NewDesc("openvpn_server_route_last_reference_time_seconds",
                                  ServerHeaderRoutingLabels(FALSE)),
                 ValueType |-> "gauge"] >>]]

OpenvpnServerHeaders(ignoreIndividuals) ==
    [k \in {S_CLIENT_LIST, S_ROUTING_TABLE} |->
        IF k = S_CLIENT_LIST
        THEN [LabelColumns |-> ServerHeaderClientLabelColumns(ignoreIndividuals),
              Metrics |-> <<
                [Column |-> S_Bytes_Received,
                 Desc |-> NewDesc("openvpn_server_client_received_bytes_total",
                                  ServerHeaderClientLabels(ignoreIndividuals)),
                 ValueType |-> "counter"],
                [Column |-> S_Bytes_Sent,
                 Desc |-> NewDesc("openvpn_server_client_sent_bytes_total",
                                  ServerHeaderClientLabels(ignoreIndividuals)),
                 ValueType |-> "counter"] >>]
        ELSE [LabelColumns |-> ServerHeaderRoutingLabelColumns(ignoreIndividuals),
              Metrics |-> <<
                [Column |-> S_Last_Ref,
                 Desc |-> NewDesc("openvpn_server_route_last_reference_time_seconds",
                                  ServerHeaderRoutingLabels(ignoreIndividuals)),
                 ValueType |-> "gauge"] >>]]

NewOpenVPNExporter(statusPaths, ignoreIndividuals, statusType) ==
    [statusPaths |-> statusPaths,
     statusType |-> statusType,
     openvpnUpDesc |-> NewDesc("openvpn_up", <<"status_path">>),
     openvpnStatusUpdateTimeDesc |->
        NewDesc("openvpn_status_update_time_seconds",
                IF statusType = S_api THEN <<"status_path", "instance_id">>
                                      ELSE <<"status_path">>),
     openvpnStatusApiBuildInfo |->
        NewDesc("openvpn_server_build_info", <<"status_path", "instance_id", "title">>),
     openvpnConnectedClientsDesc |->
        NewDesc("openvpn_server_connected_clients", <<"status_path">>),
     openvpnClientDescs |-> OpenvpnClientDescs,
     openvpnServerHeaders |-> OpenvpnServerHeaders(ignoreIndividuals)]

(***************************************************************************)
(* collectServerStatusFromReader: the state of one decode pass and the     *)
(* body of its scanner loop for one line.                                  *)
(***************************************************************************)
\* headersFound, numberConnectedClient and recordedMetrics as declared at
\* the top of the function.
NewServerLocals ==
    [headersFound |-> << >>, numberConnectedClient |-> 0, recordedMetrics |-> << >>]

\* Faulty variant: setting an entry empties the others.
MapSet_ClearOthers(m, k, v) ==
    [x \in (DOMAIN m) \cup {k} |-> IF x = k THEN v ELSE << >>]

\* Faulty variant: an entry that exists is not overwritten.
MapSet_KeepFirst(m, k, v) ==
    [x \in (DOMAIN m) \cup {k} |-> IF x \in DOMAIN m THEN m[x] ELSE v]

\* m[k] = v on a Go map held as a function.
MapSet(m, k, v) == [x \in (DOMAIN m) \cup {k} |-> IF x = k THEN v ELSE m[x]]

\* Does slice contain string
contains(s, e) == \E i \in 1..Len(s) : s[i] = e

\* Is a sub-slice of slice
subslice(sub, main) ==
    IF Len(sub) > Len(main) THEN FALSE
    ELSE \A i \in 1..Len(sub) : contains(main, sub[i])

\* Faulty variant: the metrics share one entry of the map.
RecordedLabels_AnyMetric(recordedMetrics, metric) ==
    IF DOMAIN recordedMetrics # {}
    THEN recordedMetrics[CHOOSE k \in DOMAIN recordedMetrics : TRUE]
    ELSE << >>

\* l, _ := recordedMetrics[metric]: nil when the metric has no entry.
RecordedLabels(recordedMetrics, metric) ==
    IF metric.Desc.fqName \in DOMAIN recordedMetrics
    THEN recordedMetrics[metric.Desc.fqName]
    ELSE << >>

RECURSIVE SetColumns(_, _, _, _)
\* for i, column := range columnNames { columnValues[column] = fields[i+1] }
SetColumns(columnValues, columnNames, fields, i) ==
    IF i > Len(columnNames) THEN columnValues
    ELSE SetColumns(MapSet(columnValues, columnNames[i], fields[i+1]),
                    columnNames, fields, i+1)

\* columnValues: the label columns preset to "", then the announced columns.
ColumnValues(header, columnNames, fields) ==
    SetColumns([c \in {header.LabelColumns[i] : i \in 1..Len(header.LabelColumns)}
                    |-> S_Empty],
               columnNames, fields, 1)

\* Faulty variant: the label columns are taken in the reverse order.
EntryLabels_Reversed(statusPath, header, columnValues) ==
    << statusPath >> \o
    [i \in 1..Len(header.LabelColumns) |->
        columnValues[header.LabelColumns[Len(header.LabelColumns) + 1 - i]]]

\* labels := []string{statusPath} followed by the label columns' values.
EntryLabels(statusPath, header, columnValues) ==
    << statusPath >> \o
    [i \in 1..Len(header.LabelColumns) |-> columnValues[header.LabelColumns[i]]]

\* The duplicate test of the metric loop.
AlreadyRecorded(labels, recordedMetrics, metric) ==
    subslice(labels, RecordedLabels(recordedMetrics, metric))

\* Faulty variant: a line of an unsupported key is ignored.
Outcome_IgnoringKeys(locals, emit, logs, err, panic) ==
    [locals |-> locals, emit |-> emit, logs |-> logs,
     err |-> IF err.kind = "unsupported" THEN [kind |-> "nil", arg |-> << >>] ELSE err,
     panic |-> panic]

\* The outcome of a step: the new locals of the pass, the observations sent
\* to ch, the log lines written, the error returned (NilErr when the loop
\* goes on) and whether the step panicked.
Outcome(locals, emit, logs, err, panic) ==
    [locals |-> locals, emit |-> emit, logs |-> logs, err |-> err, panic |-> panic]

RECURSIVE ExportMetrics_ParseFirst(_, _, _, _, _)
\* Faulty variant: the value is parsed before the duplicate test.
ExportMetrics_ParseFirst(header, i, columnValues, labels, acc) ==
    IF i > Len(header.Metrics) THEN acc
    ELSE
      LET metric == header.Metrics[i]
          rec == acc.locals.recordedMetrics
      IN IF metric.Column \in DOMAIN columnValues
         THEN LET parsed == ParseFloat(columnValues[metric.Column])
              IN IF parsed.err # NilErr
                 THEN [acc EXCEPT !.err = parsed.err]
                 ELSE IF AlreadyRecorded(labels, rec, metric)
                 THEN ExportMetrics_ParseFirst(header, i+1, columnValues, labels,
                        [acc EXCEPT !.logs = Append(@,
                             [column |-> metric.Column, labels |-> labels])])
                 ELSE ExportMetrics_ParseFirst(header, i+1, columnValues, labels,
                        [acc EXCEPT
                           !.emit = Append(@, MustNewConstMetric(
                                       metric.Desc, metric.ValueType,
                                       parsed.value, labels)),
                           !.locals.recordedMetrics =
                               MapSet(rec, metric.Desc.fqName,
                                      RecordedLabels(rec, metric) \o labels)])
         ELSE ExportMetrics_ParseFirst(header, i+1, columnValues, labels, acc)

RECURSIVE ExportMetrics(_, _, _, _, _)
\* for _, metric := range header.Metrics { ... } from metric i onwards.
ExportMetrics(header, i, columnValues, labels, acc) ==
    IF i > Len(header.Metrics) THEN acc
    ELSE
      LET metric == header.Metrics[i]
          rec == acc.locals.recordedMetrics
      IN IF metric.Column \in DOMAIN columnValues
         THEN IF ~AlreadyRecorded(labels, rec, metric)
              THEN LET parsed == ParseFloat(columnValues[metric.Column])
                   IN IF parsed.err # NilErr
                      THEN [acc EXCEPT !.err = parsed.err]
                      ELSE IF LabelMismatch(metric.Desc, labels)
                      THEN [acc EXCEPT !.panic = TRUE]
                      ELSE ExportMetrics(header, i+1, columnValues, labels,
                             [acc EXCEPT
                                !.emit = Append(@, MustNewConstMetric(
                                            metric.Desc, metric.ValueType,
                                            parsed.value, labels)),
                                !.locals.recordedMetrics =
                                    MapSet(rec, metric.Desc.fqName,
                                           RecordedLabels(rec, metric) \o labels)])
              ELSE ExportMetrics(header, i+1, columnValues, labels,
                     [acc EXCEPT !.logs = Append(@,
                          [column |-> metric.Column, labels |-> labels])])
         ELSE ExportMetrics(header, i+1, columnValues, labels, acc)

\* Faulty variant: a HEADER announced for any record type satisfies the requirement.
HeaderFound_AnyType(headersFound, key) == DOMAIN headersFound # {}

\* columnNames, ok := headersFound[fields[0]]: ok
HeaderFound(headersFound, key) == key \in DOMAIN headersFound

\* columnNames, ok := headersFound[fields[0]]: the nil slice when not ok
ColumnNames(headersFound, key) ==
    IF key \in DOMAIN headersFound THEN headersFound[key] ELSE << >>

\* Faulty variant: every data line is counted as a connected client.
CountClient_EveryEntry(locals, fields) ==
    [locals EXCEPT !.numberConnectedClient = @ + 1]

\* if fields[0] == "CLIENT_LIST" { numberConnectedClient++ }
CountClient(locals, fields) ==
    IF fields[1] = S_CLIENT_LIST
    THEN [locals EXCEPT !.numberConnectedClient = @ + 1]
    ELSE locals

\* Faulty variant: only a line with too many fields is rejected.
ColumnCountDiffers_OnlyMore(fields, columnNames) == Len(fields) > Len(columnNames) + 1

\* len(fields) != len(columnNames)+1
ColumnCountDiffers(fields, columnNames) == Len(fields) # Len(columnNames) + 1

\* The branch of a line whose first field names a header directive.
ServerEntry(e, statusPath, locals, fields) ==
    LET header == e.openvpnServerHeaders[fields[1]]
        counted == CountClient(locals, fields)
    IN IF ~HeaderFound(counted.headersFound, fields[1])
       THEN Outcome(counted, << >>, << >>, Error("preceded", fields[1]), FALSE)
       ELSE
         LET columnNames == ColumnNames(counted.headersFound, fields[1])
         IN IF ColumnCountDiffers(fields, columnNames)
            THEN Outcome(counted, << >>, << >>, Error("columns", fields[1]), FALSE)
            ELSE IF Len(columnNames) + 1 > Len(fields)
            THEN \* fields[i+1] out of range
                 Outcome(counted, << >>, << >>, NilErr, TRUE)
            ELSE LET columnValues == ColumnValues(header, columnNames, fields)
                     labels == EntryLabels(statusPath, header, columnValues)
                 IN ExportMetrics(header, 1, columnValues, labels,
                                  Outcome(counted, << >>, << >>, NilErr, FALSE))

\* Faulty variant: an END line resets the maps and the counter of the decode.
ServerLine_EndResets(e, statusPath, locals, text, separator) ==
    LET fields == Split(text, separator)
    IN IF fields[1] = S_END /\ Len(fields) = 1
       THEN Outcome(NewServerLocals, << >>, << >>, NilErr, FALSE)
       ELSE IF fields[1] = S_GLOBAL_STATS
       THEN Outcome(locals, << >>, << >>, NilErr, FALSE)
       ELSE IF fields[1] = S_HEADER /\ Len(fields) > 2
       THEN Outcome([locals EXCEPT !.headersFound =
                        MapSet(@, fields[2], SubSeq(fields, 3, Len(fields)))],
                    << >>, << >>, NilErr, FALSE)
       ELSE IF fields[1] = S_TIME /\ Len(fields) = 3
       THEN LET parsed == ParseFloat(fields[3])
            IN IF parsed.err # NilErr
               THEN Outcome(locals, << >>, << >>, parsed.err, FALSE)
               ELSE IF LabelMismatch(e.openvpnStatusUpdateTimeDesc, << statusPath >>)
               THEN Outcome(locals, << >>, << >>, NilErr, TRUE)
               ELSE Outcome(locals,
                            << MustNewConstMetric(e.openvpnStatusUpdateTimeDesc,
                                   "gauge", parsed.value, << statusPath >>) >>,
                            << >>, NilErr, FALSE)
       ELSE IF fields[1] = S_TITLE /\ Len(fields) = 2
       THEN Outcome(locals, << >>, << >>, NilErr, FALSE)
       ELSE IF fields[1] \in DOMAIN e.openvpnServerHeaders
       THEN ServerEntry(e, statusPath, locals, fields)
       ELSE Outcome(locals, << >>, << >>, Error("unsupported", fields[1]), FALSE)

\* The body of the scanner loop of collectServerStatusFromReader for one line.
ServerLine(e, statusPath, locals, text, separator) ==
    LET fields == Split(text, separator)
    IN IF fields[1] = S_END /\ Len(fields) = 1
       THEN Outcome(locals, << >>, << >>, NilErr, FALSE)
       ELSE IF fields[1] = S_GLOBAL_STATS
       THEN Outcome(locals, << >>, << >>, NilErr, FALSE)
       ELSE IF fields[1] = S_HEADER /\ Len(fields) > 2
       THEN Outcome([locals EXCEPT !.headersFound =
                        MapSet(@, fields[2], SubSeq(fields, 3, Len(fields)))],
                    << >>, << >>, NilErr, FALSE)
       ELSE IF fields[1] = S_TIME /\ Len(fields) = 3
       THEN LET parsed == ParseFloat(fields[3])
            IN IF parsed.err # NilErr
               THEN Outcome(locals, << >>, << >>, parsed.err, FALSE)
               ELSE IF LabelMismatch(e.openvpnStatusUpdateTimeDesc, << statusPath >>)
               THEN Outcome(locals, << >>, << >>, NilErr, TRUE)
               ELSE Outcome(locals,
                            << MustNewConstMetric(e.openvpnStatusUpdateTimeDesc,
                                   "gauge", parsed.value, << statusPath >>) >>,
                            << >>, NilErr, FALSE)
       ELSE IF fields[1] = S_TITLE /\ Len(fields) = 2
       THEN Outcome(locals, << >>, << >>, NilErr, FALSE)
       ELSE IF fields[1] \in DOMAIN e.openvpnServerHeaders
       THEN ServerEntry(e, statusPath, locals, fields)
       ELSE Outcome(locals, << >>, << >>, Error("unsupported", fields[1]), FALSE)

\* Faulty variant: the gauge is sent under the update time descriptor.
ServerEnd_WrongDesc(e, statusPath, locals) ==
    MustNewConstMetric(e.openvpnStatusUpdateTimeDesc, "gauge",
                       locals.numberConnectedClient, << statusPath >>)

\* After the loop: the connected clients gauge.
ServerEnd(e, statusPath, locals) ==
    MustNewConstMetric(e.openvpnConnectedClientsDesc, "gauge",
                       locals.numberConnectedClient, << statusPath >>)

(***************************************************************************)
(* collectClientStatusFromReader: the body of its scanner loop.            *)
(***************************************************************************)
S_Date == <<"T","h","u"," ","J","u","n"," ","1","8"," ","0","4",":","2","3",":","0","3"," ","2","0","1","5">>

\* Time.Unix() of a date and time of day in the local timezone, which the
\* model takes to be UTC: the days since 1 January 1970 of the proleptic
\* Gregorian calendar, in seconds, plus the seconds of the day.
Unix(year, month, day, hour, min, sec) ==
    LET y == IF month <= 2 THEN year - 1 ELSE year
        era == y \div 400
        yoe == y - era * 400
        doy == (153 * (IF month > 2 THEN month - 3 ELSE month + 9) + 2) \div 5 + day - 1
        doe == yoe * 365 + yoe \div 4 - yoe \div 100 + doy
    IN (era * 146097 + doe - 719468) * 86400 + hour * 3600 + min * 60 + sec

\* Faulty variant: a string that is no timestamp reads as the epoch.
ParseInLocation_Epoch(s) == [unix |-> 0, err |-> [kind |-> "nil", arg |-> << >>]]

\* time.ParseInLocation("Mon Jan 2 15:04:05 2006", s, location) followed by
\* Unix(): a weekday name, a month name, the day in one or two digits, the
\* hour in one or two digits, minute and second in two, the year in four,
\* each in its range.  The weekday is not compared with the date.
ParseInLocation(s) ==
    LET bad == [unix |-> 0, err |-> Error("ParseTime", s)]
        p == Split(s, <<" ">>)
        days == { <<"M","o","n">>, <<"T","u","e">>, <<"W","e","d">>, <<"T","h","u">>,
                  <<"F","r","i">>, <<"S","a","t">>, <<"S","u","n">> }
        months == << <<"J","a","n">>, <<"F","e","b">>, <<"M","a","r">>, <<"A","p","r">>,
                     <<"M","a","y">>, <<"J","u","n">>, <<"J","u","l">>, <<"A","u","g">>,
                     <<"S","e","p">>, <<"O","c","t">>, <<"N","o","v">>, <<"D","e","c">> >>
        num(x, least, most) ==
            /\ Len(x) >= least /\ Len(x) <= most
            /\ \A i \in 1..Len(x) : x[i] \in DOMAIN DigitValue
    IN IF Len(p) # 5 THEN bad
       ELSE
         LET hms == Split(p[4], <<":">>)
         IN IF ~(/\ p[1] \in days
                 /\ \E m \in 1..12 : months[m] = p[2]
                 /\ num(p[3], 1, 2)
                 /\ Len(hms) = 3
                 /\ num(hms[1], 1, 2) /\ num(hms[2], 2, 2) /\ num(hms[3], 2, 2)
                 /\ num(p[5], 4, 4))
            THEN bad
            ELSE
              LET year == DecimalValue(p[5])
                  month == CHOOSE m \in 1..12 : months[m] = p[2]
                  day == DecimalValue(p[3])
                  hour == DecimalValue(hms[1])
                  min == DecimalValue(hms[2])
                  sec == DecimalValue(hms[3])
                  leap == year % 4 = 0 /\ (year % 100 # 0 \/ year % 400 = 0)
                  daysIn == IF month = 2 THEN (IF leap THEN 29 ELSE 28)
                            ELSE IF month \in {4, 6, 9, 11} THEN 30 ELSE 31
              IN IF day < 1 \/ day > daysIn \/ hour > 23 \/ min > 59 \/ sec > 59
                 THEN bad
                 ELSE [unix |-> Unix(year, month, day, hour, min, sec), err |-> NilErr]

ClientLine(e, statusPath, locals, text) ==
    LET fields == Split(text, S_Comma)
    IN IF fields[1] = S_END /\ Len(fields) = 1
       THEN Outcome(locals, << >>, << >>, NilErr, FALSE)
       ELSE IF fields[1] = S_OpenVPN_STATISTICS /\ Len(fields) = 1
       THEN Outcome(locals, << >>, << >>, NilErr, FALSE)
       ELSE IF fields[1] = S_Updated /\ Len(fields) = 2
       THEN LET timeParser == ParseInLocation(fields[2])
            IN IF timeParser.err # NilErr
               THEN Outcome(locals, << >>, << >>, timeParser.err, FALSE)
               ELSE IF LabelMismatch(e.openvpnStatusUpdateTimeDesc, << statusPath >>)
               THEN Outcome(locals, << >>, << >>, NilErr, TRUE)
               ELSE Outcome(locals,
                            << MustNewConstMetric(e.openvpnStatusUpdateTimeDesc,
                                   "gauge", timeParser.unix, << statusPath >>) >>,
                            << >>, NilErr, FALSE)
       ELSE IF fields[1] \in DOMAIN e.openvpnClientDescs /\ Len(fields) = 2
       THEN LET desc == e.openvpnClientDescs[fields[1]]
                parsed == ParseFloat(fields[2])
            IN IF parsed.err # NilErr
               THEN Outcome(locals, << >>, << >>, parsed.err, FALSE)
               ELSE IF LabelMismatch(desc, << statusPath >>)
               THEN Outcome(locals, << >>, << >>, NilErr, TRUE)
               ELSE Outcome(locals,
                            << MustNewConstMetric(desc, "counter", parsed.value,
                                                  << statusPath >>) >>,
                            << >>, NilErr, FALSE)
       ELSE Outcome(locals, << >>, << >>, Error("unsupported", fields[1]), FALSE)

(***************************************************************************)
(* The status files: the lines the environment may write into them.        *)
(***************************************************************************)
S_v == <<"O","p","e","n","V","P","N"," ","2",".","4",".","4">>
S_a == <<"a">>
S_b == <<"b">>
S_x == <<"x">>
S_FOO == <<"F","O","O">>
S_client == <<"c","l","i","e","n","t">>
S_not_a_time == <<"n","o","t"," ","a"," ","t","i","m","e">>

RECURSIVE Join(_, _)
\* The line made of the given fields and separator.
Join(fields, sep) ==
    IF Len(fields) = 1 THEN fields[1]
    ELSE fields[1] \o sep \o Join(Tail(fields), sep)

LineTitle == Join(<< S_TITLE, S_v >>, S_Comma)
LineTime == Join(<< S_TIME, S_Date, <<"7">> >>, S_Comma)
LineHeaderClient ==
    Join(<< S_HEADER, S_CLIENT_LIST, S_Common_Name, S_Username, S_Bytes_Received,
            S_Bytes_Sent >>, S_Comma)
LineHeaderRouting ==
    Join(<< S_HEADER, S_ROUTING_TABLE, S_Common_Name, S_Last_Ref >>, S_Comma)
LineClientAB == Join(<< S_CLIENT_LIST, S_a, S_b, <<"1">>, <<"2">> >>, S_Comma)
LineClientBA == Join(<< S_CLIENT_LIST, S_b, S_a, <<"3">>, <<"4">> >>, S_Comma)
LineClientABx == Join(<< S_CLIENT_LIST, S_a, S_b, S_x, <<"2">> >>, S_Comma)
LineRoutingA == Join(<< S_ROUTING_TABLE, S_a, <<"9">> >>, S_Comma)
LineEnd == S_END
LineGlobalStats == Join(<< S_GLOBAL_STATS, S_x, <<"0">> >>, S_Comma)
LineHeaderClientShort == Join(<< S_HEADER, S_CLIENT_LIST, S_Common_Name >>, S_Comma)
LineClientShort == Join(<< S_CLIENT_LIST, S_client >>, S_Comma)
LineHeaderClientDup ==
    Join(<< S_HEADER, S_CLIENT_LIST, S_Common_Name, S_Common_Name, S_Bytes_Received,
            S_x >>, S_Comma)
LineEmpty == S_Empty
LineTimeBad == Join(<< S_TIME, S_Date, S_x >>, S_Comma)
LineHeaderTooShort == Join(<< S_HEADER, S_CLIENT_LIST >>, S_Comma)
LineTitleTab == Join(<< S_TITLE, S_v >>, S_Tab)
LineHeaderClientTab ==
    Join(<< S_HEADER, S_CLIENT_LIST, S_Common_Name, S_Bytes_Received >>, S_Tab)
LineClientTab == Join(<< S_CLIENT_LIST, S_a, <<"5","0","0","0">> >>, S_Tab)
LineStatistics == S_OpenVPN_STATISTICS
LineUpdated == Join(<< S_Updated, S_Date >>, S_Comma)
LineUpdatedBad == Join(<< S_Updated, S_not_a_time >>, S_Comma)
LineTunTapRead == Join(<< S_TUN_TAP_read, <<"5">> >>, S_Comma)
LineTcpUdpReadBad == Join(<< S_TCP_UDP_read, S_x >>, S_Comma)
LineFoo == S_FOO

LineHeaderClientSwapped ==
    Join(<< S_HEADER, S_CLIENT_LIST, S_Username, S_Common_Name, S_Bytes_Received,
            S_Bytes_Sent >>, S_Comma)

\* Lines whose first field is a known key with a field count no branch accepts.
KeyLines ==
    << Join(<< S_END, S_v >>, S_Comma),
       Join(<< S_TIME, S_Date >>, S_Comma),
       Join(<< S_TITLE, S_a, S_v >>, S_Comma),
       Join(<< S_Updated, S_Date, S_x >>, S_Comma),
       Join(<< S_TUN_TAP_read, <<"5">>, S_x >>, S_Comma),
       S_TUN_TAP_read,
       Join(<< S_OpenVPN_STATISTICS, S_x >>, S_Comma) >>

\* A line for each of the traffic counters besides LineTunTapRead.
CounterLines ==
    [i \in 1..8 |->
        Join(<< << S_TUN_TAP_write, S_TCP_UDP_read, S_TCP_UDP_write, S_Auth_read,
                   S_pre_compress, S_post_compress, S_pre_decompress,
                   S_post_decompress >>[i],
                <<"4","2">> >>, S_Comma)]

\* Timestamps of Updated lines: three the layout accepts (the last with a
\* one-digit day and hour) and four it refuses (a day and an hour out of
\* range, no seconds, another layout).
UpdatedLines ==
    [i \in 1..7 |-> Join(<< S_Updated,
    << <<"T","u","e"," ","M","a","r"," ","2","1"," ","1","0",":","3","9",":","0","9"," ","2","0","1","7">>,
       <<"M","o","n"," ","F","e","b"," ","2","9"," ","2","3",":","5","9",":","5","9"," ","2","0","1","6">>,
       <<"T","h","u"," ","J","a","n"," ","1"," ","0",":","0","0",":","0","0"," ","1","9","7","0">>,
       <<"T","h","u"," ","F","e","b"," ","3","0"," ","0","4",":","2","3",":","0","3"," ","2","0","1","5">>,
       <<"T","h","u"," ","J","u","n"," ","1","8"," ","0","4",":","2","3"," ","2","0","1","5">>,
       <<"T","h","u"," ","J","u","n"," ","1","8"," ","2","4",":","2","3",":","0","3"," ","2","0","1","5">>,
       <<"2","0","1","5","-","0","6","-","1","8"," ","0","4",":","2","3",":","0","3">> >>[i] >>, S_Comma)]

\* HEADER lines announcing every column of the directives, and records
\* under them: two clients and two routes of one common name that differ in
\* their addresses, connection time and user name.
IdentityLines ==
    << Join(<< S_HEADER, S_CLIENT_LIST, S_Common_Name, S_Real_Address, S_Virtual_Address,
               S_Bytes_Received, S_Bytes_Sent, S_Connected_Since, S_Username >>, S_Comma),
       Join(<< S_CLIENT_LIST, S_a, <<"r">>, <<"w">>, <<"1">>, <<"2">>, <<"7">>, <<"u">> >>, S_Comma),
       Join(<< S_CLIENT_LIST, S_a, <<"s">>, <<"y">>, <<"3">>, <<"4">>, <<"8">>, <<"v">> >>, S_Comma),
       Join(<< S_HEADER, S_ROUTING_TABLE, S_Virtual_Address, S_Common_Name, S_Real_Address,
               S_Last_Ref >>, S_Comma),
       Join(<< S_ROUTING_TABLE, <<"w">>, S_a, <<"r">>, <<"9">> >>, S_Comma),
       Join(<< S_ROUTING_TABLE, <<"y">>, S_a, <<"s">>, <<"6">> >>, S_Comma) >>

\* A HEADER line announcing one metric column of the client records, and a
\* record under it.
MetricLines ==
    << Join(<< S_HEADER, S_CLIENT_LIST, S_Common_Name, S_Bytes_Received >>, S_Comma),
       Join(<< S_CLIENT_LIST, S_a, <<"1">> >>, S_Comma) >>

\* Every line a status file of the model can contain.
Menu ==
    << LineTitle, LineTime, LineHeaderClient, LineHeaderRouting, LineClientAB,
       LineClientBA, LineClientABx, LineRoutingA, LineEnd, LineGlobalStats,
       LineHeaderClientShort, LineClientShort, LineHeaderClientDup, LineEmpty, LineTimeBad,
       LineHeaderTooShort, LineTitleTab, LineHeaderClientTab, LineClientTab,
       LineStatistics, LineUpdated, LineUpdatedBad, LineTunTapRead,
       LineTcpUdpReadBad, LineFoo, LineHeaderClientSwapped >> \o KeyLines \o CounterLines \o UpdatedLines
       \o IdentityLines \o MetricLines

\* The line numbers of Menu holding the given texts.
LinesOf(texts) == {i \in 1..Len(Menu) : Menu[i] \in texts}

RECURSIVE FileBytes(_)
\* The bytes of a file holding the given lines, each ended by a newline.
FileBytes(lines) ==
    IF Len(lines) = 0 THEN << >>
    ELSE Menu[lines[1]] \o S_Newline \o FileBytes(Tail(lines))

\* reader.Peek(18): the first 18 bytes, fewer when the file is shorter.
PeekSize == 18

\* Faulty variant: five bytes are peeked.
Peek_Short(bytes) == SubSeq(bytes, 1, IF Len(bytes) < 5 THEN Len(bytes) ELSE 5)

Peek(bytes) == SubSeq(bytes, 1, Min(PeekSize, Len(bytes)))

\* The configured status paths.
StatusPaths == << <<"p">>, <<"q">> >>
PathSet == {StatusPaths[i] : i \in 1..Len(StatusPaths)}

RECURSIVE HeadsFrom(_, _, _)
\* What opening a file the model has not looked at yet can reveal: lines up
\* to the peeked bytes, or a whole file shorter than that.  n is the number
\* of lines that may still be revealed and lines the set to draw from.
HeadsFrom(prefix, n, lines) ==
    IF Len(FileBytes(prefix)) >= PeekSize
    THEN {[state |-> "present", lines |-> prefix, complete |-> FALSE]}
    ELSE {[state |-> "present", lines |-> prefix, complete |-> TRUE]}
         \cup (IF n = 0 THEN {}
               ELSE UNION {HeadsFrom(Append(prefix, l), n-1, lines) : l \in lines})

UnknownFile == [state |-> "unknown", lines |-> << >>, complete |-> FALSE]
MissingFile == [state |-> "missing", lines |-> << >>, complete |-> FALSE]

(***************************************************************************)
(* The JSON document of the API mode.  A decoded JSON value carries its    *)
(* dynamic type, as a Go interface{} does.                                 *)
(***************************************************************************)
S_title == <<"t","i","t","l","e">>
S_time == <<"t","i","m","e">>
S_client_list == <<"c","l","i","e","n","t","_","l","i","s","t">>
S_routing_table == <<"r","o","u","t","i","n","g","_","t","a","b","l","e">>
S_openvpn_0 == <<"o","p","e","n","v","p","n","_","0">>
S_openvpn_1 == <<"o","p","e","n","v","p","n","_","1">>

JString(s) == [type |-> "string", val |-> s]
JArray(items) == [type |-> "array", val |-> items]
JObject(members) == [type |-> "object", val |-> members]
JNumber(n) == [type |-> "number", val |-> n]

UpperOf ==
    [c \in {"a","b","c","d","e","f","g","h","i","j","k","l","m","n","o","p","q","r","s","t","u","v","w","x","y","z"} |->
        CASE c = "a" -> "A"
          [] c = "b" -> "B"
          [] c = "c" -> "C"
          [] c = "d" -> "D"
          [] c = "e" -> "E"
          [] c = "f" -> "F"
          [] c = "g" -> "G"
          [] c = "h" -> "H"
          [] c = "i" -> "I"
          [] c = "j" -> "J"
          [] c = "k" -> "K"
          [] c = "l" -> "L"
          [] c = "m" -> "M"
          [] c = "n" -> "N"
          [] c = "o" -> "O"
          [] c = "p" -> "P"
          [] c = "q" -> "Q"
          [] c = "r" -> "R"
          [] c = "s" -> "S"
          [] c = "t" -> "T"
          [] c = "u" -> "U"
          [] c = "v" -> "V"
          [] c = "w" -> "W"
          [] c = "x" -> "X"
          [] c = "y" -> "Y"
          [] c = "z" -> "Z"]

\* strings.ToUpper
ToUpper(s) == [i \in 1..Len(s) |-> IF s[i] \in DOMAIN UpperOf THEN UpperOf[s[i]] ELSE s[i]]

(***************************************************************************)
(* collectStatusFromApiInterface.                                          *)
(***************************************************************************)
\* Faulty variant: every label column is read from index 0.
LabelIndex_Zero(category, column) == 0

\* The index a label column is read from (var index int: 0 when no case matches).
LabelIndex(category, column) ==
    IF category = S_client_list
    THEN CASE column = S_Common_Name -> 0
           [] column = S_Real_Address -> 1
           [] column = S_Virtual_Address -> 2
           [] column = S_Connected_Since -> 7
           [] column = S_Username -> 8
           [] OTHER -> 0
    ELSE IF category = S_routing_table
    THEN CASE column = S_Virtual_Address -> 0
           [] column = S_Common_Name -> 1
           [] column = S_Real_Address -> 2
           [] OTHER -> 0
    ELSE 0

\* The index a metric column is read from.
MetricIndex(column) ==
    CASE column = S_Bytes_Received -> 4
      [] column = S_Bytes_Sent -> 5
      [] column = S_Last_Ref -> 4
      [] OTHER -> 0

\* item[index].(string) succeeds: the index is in range and holds a string.
IsStringAt(item, index) ==
    /\ index + 1 <= Len(item.val)
    /\ item.val[index + 1].type = "string"

RECURSIVE ApiExportMetrics(_, _, _, _, _)
\* The second metric loop of an item, from metric i onwards.
ApiExportMetrics(header, i, columnValues, labels, acc) ==
    IF i > Len(header.Metrics) THEN acc
    ELSE
      LET metric == header.Metrics[i]
      IN IF metric.Column \in DOMAIN columnValues
         THEN LET parsed == ParseFloat(columnValues[metric.Column])
              IN IF parsed.err # NilErr
                 THEN [acc EXCEPT !.err = parsed.err]
                 ELSE IF LabelMismatch(metric.Desc, labels)
                 THEN [acc EXCEPT !.panic = TRUE]
                 ELSE ApiExportMetrics(header, i+1, columnValues, labels,
                        [acc EXCEPT !.emit = Append(@, MustNewConstMetric(
                                      metric.Desc, metric.ValueType, parsed.value,
                                      labels))])
         ELSE ApiExportMetrics(header, i+1, columnValues, labels, acc)

\* One item of client_list or routing_table; acc.locals is connectedClientCount.
ApiItem(e, statusPath, category, item, acc) ==
    IF item.type # "array" THEN [acc EXCEPT !.panic = TRUE]
    ELSE IF ToUpper(category) \notin DOMAIN e.openvpnServerHeaders THEN acc
    ELSE
      LET header == e.openvpnServerHeaders[ToUpper(category)]
          counted == IF category = S_client_list
                     THEN [acc EXCEPT !.locals = @ + 1] ELSE acc
          labelColumns == {header.LabelColumns[i] : i \in 1..Len(header.LabelColumns)}
          metricColumns == {header.Metrics[i].Column : i \in 1..Len(header.Metrics)}
      IN IF \/ \E c \in labelColumns : ~IsStringAt(item, LabelIndex(category, c))
            \/ \E c \in metricColumns : ~IsStringAt(item, MetricIndex(c))
         THEN [counted EXCEPT !.panic = TRUE]
         ELSE
           LET columnValues ==
                 [c \in labelColumns \cup metricColumns |->
                    IF c \in metricColumns
                    THEN item.val[MetricIndex(c) + 1].val
                    ELSE item.val[LabelIndex(category, c) + 1].val]
               labels == EntryLabels(statusPath, header, columnValues)
           IN ApiExportMetrics(header, 1, columnValues, labels, counted)

\* Faulty variant: the items of a category are not visited.
ApiItems_None(e, statusPath, category, items, i, acc) == acc

RECURSIVE ApiItems(_, _, _, _, _, _)
\* for _, item := range categoryData.([]interface{}) from item i onwards.
ApiItems(e, statusPath, category, items, i, acc) ==
    IF i > Len(items) THEN acc
    ELSE LET next == ApiItem(e, statusPath, category, items[i], acc)
         IN IF next.panic \/ next.err # NilErr THEN next
            ELSE ApiItems(e, statusPath, category, items, i+1, next)

\* The body of the loop over the categories of one instance.
ApiCategory(e, statusPath, instanceId, category, categoryData, count) ==
    LET start == Outcome(count, << >>, << >>, NilErr, FALSE)
    IN IF category = S_title
       THEN IF categoryData.type # "string" THEN [start EXCEPT !.panic = TRUE]
            ELSE IF LabelMismatch(e.openvpnStatusApiBuildInfo,
                                  << statusPath, instanceId, categoryData.val >>)
            THEN [start EXCEPT !.panic = TRUE]
            ELSE [start EXCEPT !.emit =
                    << MustNewConstMetric(e.openvpnStatusApiBuildInfo, "gauge", 1,
                          << statusPath, instanceId, categoryData.val >>) >>]
       ELSE IF category = S_time
       THEN IF categoryData.type # "array" \/ ~IsStringAt(categoryData, 1)
            THEN [start EXCEPT !.panic = TRUE]
            ELSE LET parsed == ParseFloat(categoryData.val[2].val)
                 IN IF parsed.err # NilErr THEN [start EXCEPT !.err = parsed.err]
                    ELSE IF LabelMismatch(e.openvpnStatusUpdateTimeDesc,
                                          << statusPath, instanceId >>)
                    THEN [start EXCEPT !.panic = TRUE]
                    ELSE [start EXCEPT !.emit =
                            << MustNewConstMetric(e.openvpnStatusUpdateTimeDesc,
                                  "gauge", parsed.value,
                                  << statusPath, instanceId >>) >>]
       ELSE IF category = S_client_list \/ category = S_routing_table
       THEN IF categoryData.type # "array" THEN [start EXCEPT !.panic = TRUE]
            ELSE ApiItems(e, statusPath, category, categoryData.val, 1, start)
       ELSE start

(***************************************************************************)
(* The state of the exporter process.                                      *)
(***************************************************************************)
VARIABLES
    openvpnStatusPaths, \* main: the value of the flag openvpn.status_paths
    exporter,   \* the *OpenVPNExporter built by NewOpenVPNExporter
    files,      \* per status path: what the file system holds, as far as read
    budget,     \* lines the environment may still reveal
    inputs,     \* the lines of Menu the environment writes into status files
    proc,       \* "running", "panic" (a goroutine panicked) or "exit" (log.Fatalf)
    pc,         \* per Collect call: where it stands
    idx,        \* per Collect call: index of the status path being collected
    pos,        \* per Collect call: lines the scanner has returned
    separator,  \* per Collect call: the separator of the running server decode
    locals,     \* per decode: headersFound, numberConnectedClient, recordedMetrics
    out,        \* per Collect call: the metrics sent to ch, in order
    logs,       \* per Collect call: the duplicate notices logged
    ret,        \* per Collect call: the error returned by the last decode
    results,    \* per Collect call: what Collect saw of each source, in order
    api         \* per Collect call: the state of the API decode

vars == << openvpnStatusPaths, exporter, files, budget, inputs, proc, pc, idx, pos, separator, locals,
           out, logs, ret, results, api >>

\* The Collect calls that may run concurrently (one per scrape).
Threads == {1, 2}

\* Faulty variant: the locals of a decode are package-level variables.
Owner_Shared(t) == CHOOSE u \in Threads : \A w \in Threads : u <= w

\* The decode whose locals a Collect call reads and writes: its own.
Owner(t) == t

S_TITLE_Comma == <<"T","I","T","L","E",",">>
S_TITLE_Tab == <<"T","I","T","L","E","\t">>

\* What opening and peeking finds of a file.
Opened(file) ==
    IF file.state = "unknown"
    THEN {MissingFile} \cup HeadsFrom(<< >>, budget, inputs)
    ELSE {file}

\* Faulty variant: the line the format was detected from is consumed by the
\* detection when the file holds more.
NextLines_AfterPeek(f, p) ==
    IF p = 0 /\ Len(f.lines) >= 2 THEN {f.lines[2]}
    ELSE IF p < Len(f.lines) THEN {f.lines[p+1]}
    ELSE IF ~f.complete /\ budget > 0 THEN inputs
    ELSE {}

\* The lines scanner.Scan() can return next from file f after p lines.
NextLines(f, p) ==
    IF p < Len(f.lines) THEN {f.lines[p+1]}
    ELSE IF ~f.complete /\ budget > 0 THEN inputs
    ELSE {}

\* The file after Scan() returned line l as line p+1.
Revealed(f, p, l) ==
    IF p < Len(f.lines) THEN f ELSE [f EXCEPT !.lines = Append(@, l)]

CurrentPath(t) == exporter.statusPaths[idx[t]]

\* Collect: the branch on the status type.
CollectStart(t) ==
    /\ proc = "running"
    /\ pc[t] = "idle"
    /\ IF exporter.statusType = S_api
       THEN pc' = [pc EXCEPT ![t] = "api"] /\ idx' = idx
       ELSE /\ pc' = [pc EXCEPT ![t] =
                        IF Len(exporter.statusPaths) = 0 THEN "done" ELSE "open"]
            /\ idx' = [idx EXCEPT ![t] = 1]
    /\ UNCHANGED << openvpnStatusPaths, exporter, files, budget, inputs, proc, pos, separator, locals,
                    out, logs, ret, results, api >>

\* Faulty variant: a server decode goes on with the maps and the counter of
\* the decode before it.
OpenFile_KeepLocals(t) ==
    /\ proc = "running"
    /\ pc[t] = "open"
    /\ \E f \in Opened(files[CurrentPath(t)]) :
         /\ files' = [files EXCEPT ![CurrentPath(t)] = f]
         /\ budget' = budget - (Len(f.lines) - Len(files[CurrentPath(t)].lines))
         /\ pos' = [pos EXCEPT ![t] = 0]
         /\ IF f.state = "missing"
            THEN /\ ret' = [ret EXCEPT ![t] = Error("open", CurrentPath(t))]
                 /\ pc' = [pc EXCEPT ![t] = "report"]
                 /\ UNCHANGED << separator, locals >>
            ELSE LET buf == Peek(FileBytes(f.lines))
                 IN IF HasPrefix(buf, S_TITLE_Comma)
                    THEN /\ pc' = [pc EXCEPT ![t] = "server"]
                         /\ separator' = [separator EXCEPT ![t] = S_Comma]
                         /\ locals' = locals
                         /\ ret' = [ret EXCEPT ![t] = NilErr]
                    ELSE IF HasPrefix(buf, S_TITLE_Tab)
                    THEN /\ pc' = [pc EXCEPT ![t] = "server"]
                         /\ separator' = [separator EXCEPT ![t] = S_Tab]
                         /\ locals' = locals
                         /\ ret' = [ret EXCEPT ![t] = NilErr]
                    ELSE IF HasPrefix(buf, S_OpenVPN_STATISTICS)
                    THEN /\ pc' = [pc EXCEPT ![t] = "client"]
                         /\ ret' = [ret EXCEPT ![t] = NilErr]
                         /\ UNCHANGED << separator, locals >>
                    ELSE /\ ret' = [ret EXCEPT ![t] = Error("unexpected", buf)]
                         /\ pc' = [pc EXCEPT ![t] = "report"]
                         /\ UNCHANGED << separator, locals >>
    /\ UNCHANGED << openvpnStatusPaths, exporter, inputs, proc, idx, out, logs, results, api >>

\* collectStatusFromFile and collectStatusFromReader up to the decoder's loop.
OpenFile(t) ==
    /\ proc = "running"
    /\ pc[t] = "open"
    /\ \E f \in Opened(files[CurrentPath(t)]) :
         /\ files' = [files EXCEPT ![CurrentPath(t)] = f]
         /\ budget' = budget - (Len(f.lines) - Len(files[CurrentPath(t)].lines))
         /\ pos' = [pos EXCEPT ![t] = 0]
         /\ IF f.state = "missing"
            THEN /\ ret' = [ret EXCEPT ![t] = Error("open", CurrentPath(t))]
                 /\ pc' = [pc EXCEPT ![t] = "report"]
                 /\ UNCHANGED << separator, locals >>
            ELSE LET buf == Peek(FileBytes(f.lines))
                 IN IF HasPrefix(buf, S_TITLE_Comma)
                    THEN /\ pc' = [pc EXCEPT ![t] = "server"]
                         /\ separator' = [separator EXCEPT ![t] = S_Comma]
                         /\ locals' = [locals EXCEPT ![Owner(t)] = NewServerLocals]
                         /\ ret' = [ret EXCEPT ![t] = NilErr]
                    ELSE IF HasPrefix(buf, S_TITLE_Tab)
                    THEN /\ pc' = [pc EXCEPT ![t] = "server"]
                         /\ separator' = [separator EXCEPT ![t] = S_Tab]
                         /\ locals' = [locals EXCEPT ![Owner(t)] = NewServerLocals]
                         /\ ret' = [ret EXCEPT ![t] = NilErr]
                    ELSE IF HasPrefix(buf, S_OpenVPN_STATISTICS)
                    THEN /\ pc' = [pc EXCEPT ![t] = "client"]
                         /\ ret' = [ret EXCEPT ![t] = NilErr]
                         /\ UNCHANGED << separator, locals >>
                    ELSE /\ ret' = [ret EXCEPT ![t] = Error("unexpected", buf)]
                         /\ pc' = [pc EXCEPT ![t] = "report"]
                         /\ UNCHANGED << separator, locals >>
    /\ UNCHANGED << openvpnStatusPaths, exporter, inputs, proc, idx, out, logs, results, api >>

\* Faulty variant: the error of a line is kept but the loop goes on.
Applied_Continue(t, o) ==
    /\ locals' = [locals EXCEPT ![Owner(t)] = o.locals]
    /\ out' = [out EXCEPT ![t] = @ \o o.emit]
    /\ logs' = [logs EXCEPT ![t] = @ \o o.logs]
    /\ proc' = IF o.panic THEN "panic" ELSE proc
    /\ ret' = [ret EXCEPT ![t] = o.err]
    /\ pc' = pc

\* The effect of one loop iteration with outcome o on the Collect call.
Applied(t, o) ==
    /\ locals' = [locals EXCEPT ![Owner(t)] = o.locals]
    /\ out' = [out EXCEPT ![t] = @ \o o.emit]
    /\ logs' = [logs EXCEPT ![t] = @ \o o.logs]
    /\ IF o.panic
       THEN proc' = "panic" /\ UNCHANGED << pc, ret >>
       ELSE /\ proc' = proc
            /\ ret' = [ret EXCEPT ![t] = o.err]
            /\ pc' = [pc EXCEPT ![t] = IF o.err # NilErr THEN "report" ELSE @]

\* collectServerStatusFromReader: scanner.Scan() returns a line.
ServerScanLine(t) ==
    /\ proc = "running"
    /\ pc[t] = "server"
    /\ \E l \in NextLines(files[CurrentPath(t)], pos[t]) :
         /\ files' = [files EXCEPT ![CurrentPath(t)] = Revealed(@, pos[t], l)]
         /\ budget' = IF pos[t] < Len(files[CurrentPath(t)].lines)
                      THEN budget ELSE budget - 1
         /\ pos' = [pos EXCEPT ![t] = @ + 1]
         /\ Applied(t, ServerLine(exporter, CurrentPath(t), locals[Owner(t)],
                                  Menu[l], separator[t]))
    /\ UNCHANGED << openvpnStatusPaths, exporter, inputs, idx, separator, results, api >>

\* Faulty variant: Scan() blocks at the end of the stream and reports no
\* read error, so the loop never ends.
ScanStops_Blocks(t, failed) ==
    /\ proc = "running"
    /\ FALSE
    /\ ret' = ret /\ files' = files /\ pc' = pc

\* The loop of a decoder ends: at the end of the stream (scanner.Err() is
\* nil) or on a read error (scanner.Err() is that error).
ScanStops(t, failed) ==
    /\ proc = "running"
    /\ IF failed
       THEN /\ ret' = [ret EXCEPT ![t] = Error("scan", << >>)]
            /\ files' = files
       ELSE /\ pos[t] = Len(files[CurrentPath(t)].lines)
            /\ ret' = [ret EXCEPT ![t] = NilErr]
            /\ files' = [files EXCEPT ![CurrentPath(t)].complete = TRUE]
    /\ pc' = [pc EXCEPT ![t] = "report"]

\* collectServerStatusFromReader after the loop.
ServerScanEnd(t) ==
    /\ pc[t] = "server"
    /\ \E failed \in BOOLEAN : ScanStops(t, failed)
    /\ IF LabelMismatch(exporter.openvpnConnectedClientsDesc, << CurrentPath(t) >>)
       THEN proc' = "panic" /\ out' = out
       ELSE /\ proc' = proc
            /\ out' = [out EXCEPT ![t] =
                         Append(@, ServerEnd(exporter, CurrentPath(t), locals[Owner(t)]))]
    /\ UNCHANGED << openvpnStatusPaths, exporter, budget, inputs, idx, pos, separator, locals, logs,
                    results, api >>

\* collectClientStatusFromReader: scanner.Scan() returns a line.
ClientScanLine(t) ==
    /\ proc = "running"
    /\ pc[t] = "client"
    /\ \E l \in NextLines(files[CurrentPath(t)], pos[t]) :
         /\ files' = [files EXCEPT ![CurrentPath(t)] = Revealed(@, pos[t], l)]
         /\ budget' = IF pos[t] < Len(files[CurrentPath(t)].lines)
                      THEN budget ELSE budget - 1
         /\ pos' = [pos EXCEPT ![t] = @ + 1]
         /\ Applied(t, ClientLine(exporter, CurrentPath(t), locals[Owner(t)], Menu[l]))
    /\ UNCHANGED << openvpnStatusPaths, exporter, inputs, idx, separator, results, api >>

\* collectClientStatusFromReader after the loop.
ClientScanEnd(t) ==
    /\ pc[t] = "client"
    /\ \E failed \in BOOLEAN : ScanStops(t, failed)
    /\ UNCHANGED << openvpnStatusPaths, exporter, budget, inputs, proc, idx, pos, separator, locals,
                    out, logs, results, api >>

\* Faulty variant: the source is reported up whatever the decode returned.
UpValue_Always(err) == IF err = NilErr THEN 1 ELSE 1

\* Collect: 1.0 after err == nil, 0.0 otherwise.
UpValue(err) == IF err = NilErr THEN 1 ELSE 0

\* Collect, file mode: the up metric of the source, then the next source.
Report(t) ==
    /\ proc = "running"
    /\ pc[t] = "report"
    /\ IF LabelMismatch(exporter.openvpnUpDesc, << CurrentPath(t) >>)
       THEN proc' = "panic" /\ UNCHANGED << out, results, idx, pc >>
       ELSE /\ proc' = proc
            /\ out' = [out EXCEPT ![t] =
                         Append(@, MustNewConstMetric(exporter.openvpnUpDesc, "gauge",
                                      UpValue(ret[t]),
                                      << CurrentPath(t) >>))]
            /\ results' = [results EXCEPT ![t] =
                             Append(@, [path |-> CurrentPath(t), err |-> ret[t],
                                        consumed |-> pos[t], n |-> Len(out[t]),
                                        nlogs |-> Len(logs[t])])]
            /\ IF idx[t] < Len(exporter.statusPaths)
               THEN idx' = [idx EXCEPT ![t] = @ + 1] /\ pc' = [pc EXCEPT ![t] = "open"]
               ELSE idx' = idx /\ pc' = [pc EXCEPT ![t] = "done"]
    /\ UNCHANGED << openvpnStatusPaths, exporter, files, budget, inputs, pos, separator, locals, logs, ret, api >>

(***************************************************************************)
(* Collect in API mode: collectStatusFromApi, collectStatusFromApiJson.    *)
(***************************************************************************)
ApiClientItem(cn, received) ==
    JArray(<< JString(cn), JString(<<"r">>), JString(<<"w">>), JString(S_Empty),
              JString(received), JString(<<"2">>), JString(S_Empty),
              JString(<<"7">>), JString(<<"u">>) >>)

ApiRoutingItem(cn) ==
    JArray(<< JString(<<"w">>), JString(cn), JString(<<"r">>), JString(S_Empty),
              JString(<<"9">>) >>)

ApiInstance(title, updated, clients, routes) ==
    JObject([k \in {S_title, S_time, S_client_list, S_routing_table} |->
               CASE k = S_title -> title
                 [] k = S_time -> JArray(<< JString(S_Date), JString(updated) >>)
                 [] k = S_client_list -> JArray(clients)
                 [] k = S_routing_table -> JArray(routes)])

\* What sacli VPNStatus can print: text that is no JSON object, or a document.
ApiOutputs ==
    { [type |-> "invalid", val |-> << >>],
      JObject([k \in {S_openvpn_0} |->
          ApiInstance(JString(S_v), <<"7">>, << ApiClientItem(S_a, <<"1">>) >>,
                      << ApiRoutingItem(S_a) >>)]),
      JObject([k \in {S_openvpn_0, S_openvpn_1} |->
          ApiInstance(JString(S_v), <<"7">>, << ApiClientItem(S_a, <<"1">>) >>, << >>)]),
      JObject([k \in {S_openvpn_0} |->
          ApiInstance(JString(S_v), S_x, << >>, << >>)]),
      JObject([k \in {S_openvpn_0} |->
          ApiInstance(JString(S_v), <<"7">>, << ApiClientItem(S_a, S_x) >>, << >>)]),
      JObject([k \in {S_openvpn_0} |->
          ApiInstance(JNumber(1), <<"7">>, << >>, << >>)]),
      JObject([k \in {S_openvpn_0} |-> JString(S_v)]),
      JObject([k \in {S_openvpn_0} |->
          ApiInstance(JString(S_v), <<"7">>, << JArray(<< JString(S_a) >>) >>, << >>)]),
      JObject([k \in {S_openvpn_0} |->
          ApiInstance(JString(S_v), <<"7">>, << >>, << JString(S_a) >>)]) }

NewApiLocals(doc) ==
    [doc |-> doc, active |-> FALSE, instanceId |-> << >>, seenInstances |-> {},
     seenCategories |-> {}, connectedClientCount |-> 0]

NoApi == NewApiLocals(<< >>)

\* collectStatusFromApi up to the loop of collectStatusFromApiInterface.
ApiRun(t) ==
    /\ proc = "running"
    /\ pc[t] = "api"
    /\ \/ \* cmd.Run() fails: log.Fatalf ends the process
          /\ proc' = "exit"
          /\ UNCHANGED << pc, ret, api >>
       \/ \E output \in ApiOutputs :
            /\ proc' = proc
            /\ IF output.type # "object"
               THEN \* json.Unmarshal returns an error
                    /\ ret' = [ret EXCEPT ![t] = Error("json", << >>)]
                    /\ pc' = [pc EXCEPT ![t] = "apireport"]
                    /\ api' = api
               ELSE /\ ret' = [ret EXCEPT ![t] = NilErr]
                    /\ pc' = [pc EXCEPT ![t] = "apiloop"]
                    /\ api' = [api EXCEPT ![t] = NewApiLocals(output.val)]
    /\ UNCHANGED << openvpnStatusPaths, exporter, files, budget, inputs, idx, pos, separator, locals,
                    out, logs, results >>

\* The loop over an instance's categories has nothing left to visit.
InstanceDone(a) ==
    IF a.active THEN a.seenCategories = DOMAIN a.doc[a.instanceId].val ELSE TRUE

\* for instanceId, data := range outputInterface: the next instance, in any order.
ApiNextInstance(t) ==
    /\ proc = "running"
    /\ pc[t] = "apiloop"
    /\ InstanceDone(api[t])
    /\ \E instanceId \in (DOMAIN api[t].doc) \ api[t].seenInstances :
         api' = [api EXCEPT ![t] =
                   [@ EXCEPT !.seenInstances = @ \cup {instanceId},
                             !.seenCategories = {},
                             !.instanceId = instanceId,
                             !.active = (api[t].doc[instanceId].type = "object")]]
    /\ UNCHANGED << openvpnStatusPaths, exporter, files, budget, inputs, proc, pc, idx, pos, separator,
                    locals, out, logs, ret, results >>

\* for category, categoryData := range dataInterface: one category, in any order.
ApiCategoryStep(t) ==
    /\ proc = "running"
    /\ pc[t] = "apiloop"
    /\ api[t].active
    /\ \E category \in (DOMAIN api[t].doc[api[t].instanceId].val)
                            \ api[t].seenCategories :
         LET o == ApiCategory(exporter, exporter.statusType, api[t].instanceId,
                              category, api[t].doc[api[t].instanceId].val[category],
                              api[t].connectedClientCount)
         IN /\ api' = [api EXCEPT ![t] =
                         [@ EXCEPT !.seenCategories = @ \cup {category},
                                   !.connectedClientCount = o.locals]]
            /\ out' = [out EXCEPT ![t] = @ \o o.emit]
            /\ IF o.panic
               THEN proc' = "panic" /\ UNCHANGED << pc, ret >>
               ELSE /\ proc' = proc
                    /\ ret' = [ret EXCEPT ![t] = o.err]
                    /\ pc' = [pc EXCEPT ![t] = IF o.err # NilErr THEN "apireport" ELSE @]
    /\ UNCHANGED << openvpnStatusPaths, exporter, files, budget, inputs, idx, pos, separator, locals,
                    logs, results >>

\* collectStatusFromApiInterface after the loops: the connected clients gauge.
ApiEnd(t) ==
    /\ proc = "running"
    /\ pc[t] = "apiloop"
    /\ InstanceDone(api[t])
    /\ api[t].seenInstances = DOMAIN api[t].doc
    /\ IF LabelMismatch(exporter.openvpnConnectedClientsDesc, << exporter.statusType >>)
       THEN proc' = "panic" /\ UNCHANGED << out, pc, ret >>
       ELSE /\ proc' = proc
            /\ out' = [out EXCEPT ![t] =
                         Append(@, MustNewConstMetric(
                                     exporter.openvpnConnectedClientsDesc, "gauge",
                                     api[t].connectedClientCount,
                                     << exporter.statusType >>))]
            /\ ret' = [ret EXCEPT ![t] = NilErr]
            /\ pc' = [pc EXCEPT ![t] = "apireport"]
    /\ UNCHANGED << openvpnStatusPaths, exporter, files, budget, inputs, idx, pos, separator, locals,
                    logs, results, api >>

\* Faulty variant: the up metric is labelled by the first status path.
ReportApi_PathLabel(t) ==
    /\ proc = "running"
    /\ pc[t] = "apireport"
    /\ IF ret[t] = NilErr
       THEN IF ret[t] = NilErr
            THEN out' = [out EXCEPT ![t] =
                           Append(@, MustNewConstMetric(exporter.openvpnUpDesc, "gauge",
                                        1, << exporter.statusPaths[1] >>))]
            ELSE out' = [out EXCEPT ![t] =
                           Append(@, MustNewConstMetric(exporter.openvpnUpDesc, "gauge",
                                        0, << exporter.statusPaths[1] >>))]
       ELSE out' = out
    /\ results' = [results EXCEPT ![t] =
                     Append(@, [path |-> exporter.statusType, err |-> ret[t],
                                consumed |-> 0, n |-> Len(out[t]),
                                nlogs |-> Len(logs[t])])]
    /\ pc' = [pc EXCEPT ![t] = "done"]
    /\ UNCHANGED << openvpnStatusPaths, exporter, files, budget, inputs, proc, idx, pos, separator,
                    locals, logs, ret, api >>

\* Collect, API mode, after collectStatusFromApi returned err.
ReportApi(t) ==
    /\ proc = "running"
    /\ pc[t] = "apireport"
    /\ IF ret[t] = NilErr
       THEN IF ret[t] = NilErr
            THEN out' = [out EXCEPT ![t] =
                           Append(@, MustNewConstMetric(exporter.openvpnUpDesc, "gauge",
                                        1, << exporter.statusType >>))]
            ELSE out' = [out EXCEPT ![t] =
                           Append(@, MustNewConstMetric(exporter.openvpnUpDesc, "gauge",
                                        0, << exporter.statusType >>))]
       ELSE out' = out
    /\ results' = [results EXCEPT ![t] =
                     Append(@, [path |-> exporter.statusType, err |-> ret[t],
                                consumed |-> 0, n |-> Len(out[t]),
                                nlogs |-> Len(logs[t])])]
    /\ pc' = [pc EXCEPT ![t] = "done"]
    /\ UNCHANGED << openvpnStatusPaths, exporter, files, budget, inputs, proc, idx, pos, separator,
                    locals, logs, ret, api >>

(***************************************************************************)
(* Specifications.                                                         *)
(***************************************************************************)
Exporters ==
    {NewOpenVPNExporter(StatusPaths, ignoreIndividuals, statusType) :
        ignoreIndividuals \in BOOLEAN, statusType \in {S_file, S_api}}

InitCommon ==
    /\ openvpnStatusPaths = Join(StatusPaths, S_Comma)
    /\ files = [p \in PathSet |-> UnknownFile]
    /\ proc = "running"
    /\ idx = [t \in Threads |-> 0]
    /\ pos = [t \in Threads |-> 0]
    /\ separator = [t \in Threads |-> S_Comma]
    /\ locals = [t \in Threads |-> NewServerLocals]
    /\ out = [t \in Threads |-> << >>]
    /\ logs = [t \in Threads |-> << >>]
    /\ ret = [t \in Threads |-> NilErr]
    /\ results = [t \in Threads |-> << >>]
    /\ api = [t \in Threads |-> NoApi]

\* The lines of the status files of each specification.
CoreLines ==
    LinesOf({LineTitle, LineTime, LineHeaderClient, LineHeaderRouting, LineClientAB,
             LineClientBA, LineRoutingA, LineEnd, LineFoo, LineStatistics,
             LineTunTapRead, LineTimeBad, LineClientShort, LineTitleTab})

DedupeLines ==
    LinesOf({LineTitle, LineHeaderClient, LineClientAB, LineClientBA, LineClientABx,
             LineStatistics, LineTunTapRead})

ConcLines ==
    LinesOf({LineTitle, LineHeaderClient, LineClientAB, LineStatistics,
             LineTunTapRead, LineFoo})

RobustLines ==
    LinesOf({LineTitle, LineTitleTab, LineStatistics, LineHeaderClient,
             LineHeaderClientShort, LineHeaderClientDup, LineClientAB, LineClientShort,
             LineEmpty, LineFoo, LineHeaderTooShort, LineHeaderClientTab,
             LineClientTab, LineUpdated, LineUpdatedBad, LineTcpUdpReadBad, LineEnd})

\* One scrape: a single Collect call.
Init ==
    /\ InitCommon
    /\ exporter \in Exporters
    /\ budget = MaxLines
    /\ inputs = CoreLines
    /\ pc = [t \in Threads |-> IF t = 1 THEN "idle" ELSE "off"]

\* One scrape of status files with repeated client rows.
InitDedupe ==
    /\ InitCommon
    /\ exporter \in Exporters
    /\ budget = MaxDedupeLines
    /\ inputs = DedupeLines
    /\ pc = [t \in Threads |-> IF t = 1 THEN "idle" ELSE "off"]

\* One scrape of status files with malformed lines.
InitRobust ==
    /\ InitCommon
    /\ exporter \in Exporters
    /\ budget = MaxLines
    /\ inputs = RobustLines
    /\ pc = [t \in Threads |-> IF t = 1 THEN "idle" ELSE "off"]

\* Two scrapes at once: two Collect calls running concurrently in file mode.
InitConc ==
    /\ InitCommon
    /\ exporter \in {x \in Exporters : x.statusType = S_file}
    /\ budget = MaxConcLines
    /\ inputs = ConcLines
    /\ pc = [t \in Threads |-> "idle"]

\* One scrape in file mode of status files made of the given lines.
InitFileLines(lines) ==
    /\ InitCommon
    /\ exporter \in {x \in Exporters : x.statusType = S_file}
    /\ budget = MaxLines
    /\ inputs = lines
    /\ pc = [t \in Threads |-> IF t = 1 THEN "idle" ELSE "off"]

\* The steps of Collect calls in file mode.
NextFile ==
    \E t \in Threads :
        \/ CollectStart(t)
        \/ OpenFile(t)
        \/ ServerScanLine(t)
        \/ ServerScanEnd(t)
        \/ ClientScanLine(t)
        \/ ClientScanEnd(t)
        \/ Report(t)

Next ==
    \E t \in Threads :
        \/ CollectStart(t)
        \/ OpenFile(t)
        \/ ServerScanLine(t)
        \/ ServerScanEnd(t)
        \/ ClientScanLine(t)
        \/ ClientScanEnd(t)
        \/ Report(t)
        \/ ApiRun(t)
        \/ ApiNextInstance(t)
        \/ ApiCategoryStep(t)
        \/ ApiEnd(t)
        \/ ReportApi(t)

Spec == Init /\ [][Next]_vars
SpecDedupe == InitDedupe /\ [][Next]_vars
SpecRobust == InitRobust /\ [][Next]_vars
SpecConc == InitConc /\ [][NextFile]_vars

\* Status files with lines of unknown keys and wrong field counts.
SpecKeys ==
    InitFileLines(LinesOf({LineTitle, LineStatistics, LineEmpty, LineFoo,
                           LineHeaderTooShort, LineHeaderClient, LineTunTapRead,
                           LineGlobalStats, LineEnd, LineClientAB}
                          \cup {KeyLines[i] : i \in DOMAIN KeyLines}))
        /\ [][NextFile]_vars

\* Client status files.
SpecClient ==
    InitFileLines(LinesOf({LineTitle, LineStatistics, LineTunTapRead, LineTcpUdpReadBad}
                          \cup {CounterLines[i] : i \in DOMAIN CounterLines}))
        /\ [][NextFile]_vars

\* Client status files with the timestamps of UpdatedLines.
SpecTime ==
    InitFileLines(LinesOf({LineTitle, LineStatistics, LineUpdated, LineUpdatedBad,
                           LineTunTapRead, LineEnd}
                          \cup {UpdatedLines[i] : i \in DOMAIN UpdatedLines}))
        /\ [][NextFile]_vars

\* Server status files announcing every column of the directives.
SpecIdentity ==
    InitFileLines(LinesOf({LineTitle, LineStatistics}
                          \cup {IdentityLines[i] : i \in DOMAIN IdentityLines}))
        /\ [][NextFile]_vars

\* Server status files whose HEADER lines announce the columns in several orders.
SpecLabels ==
    InitFileLines(LinesOf({LineTitle, LineHeaderClient, LineHeaderClientSwapped,
                           LineHeaderClientDup, LineHeaderRouting, LineClientAB,
                           LineRoutingA, LineStatistics, LineHeaderTooShort}))
        /\ [][NextFile]_vars

\* One scrape in file mode of server status files with records of both
\* types under several HEADER lines.
InitMetrics ==
    /\ InitCommon
    /\ exporter \in {x \in Exporters : x.statusType = S_file}
    /\ budget = MaxDedupeLines
    /\ inputs = LinesOf({LineTitle, LineHeaderClient, LineClientAB, LineHeaderRouting,
                         LineRoutingA, LineStatistics, MetricLines[1], MetricLines[2]})
    /\ pc = [t \in Threads |-> IF t = 1 THEN "idle" ELSE "off"]

SpecMetrics == InitMetrics /\ [][NextFile]_vars

\* One scrape in file mode by a goroutine that is scheduled again and again
\* and whose sends on the channel are all received.
SpecFair ==
    InitFileLines(LinesOf({LineTitle, LineHeaderClient, LineClientAB, LineStatistics}))
        /\ [][NextFile]_vars
        /\ WF_vars(NextFile)

(***************************************************************************)
(* The exporter with instance names (src/openvpn_exporter.go): the flag    *)
(* openvpn.status_paths names the instances, the exporter holds a map from *)
(* instance name to status path.                                           *)
(***************************************************************************)
\* The segments a flag value is drawn from.
MaxSegments == 3

RECURSIVE ParseStatusPaths_KeepFirst(_, _, _)
\* Faulty variant: a segment whose instance name is taken already is skipped.
ParseStatusPaths_KeepFirst(segments, i, statusPaths) ==
    IF i > Len(segments) THEN statusPaths
    ELSE LET s == Split(segments[i], <<":">>)
             n == Len(s)
         IN IF n < 1 \/ n > 2 \/ s[1] = S_Empty \/ s[n] = S_Empty
            THEN ParseStatusPaths_KeepFirst(segments, i+1, statusPaths)
            ELSE ParseStatusPaths_KeepFirst(segments, i+1,
                    MapSet_KeepFirst(statusPaths, s[1], s[n]))

RECURSIVE ParseStatusPaths(_, _, _)
\* main: for _, segment := range strings.Split(*openvpnStatusPaths, ",") from
\* segment i onwards.
ParseStatusPaths(segments, i, statusPaths) ==
    IF i > Len(segments) THEN statusPaths
    ELSE LET s == Split(segments[i], <<":">>)
             n == Len(s)
         IN IF n < 1 \/ n > 2 \/ s[1] = S_Empty \/ s[n] = S_Empty
            THEN ParseStatusPaths(segments, i+1, statusPaths)
            ELSE ParseStatusPaths(segments, i+1, MapSet(statusPaths, s[1], s[n]))

\* Collect: one iteration of the loop over the map, in any order, or its end.
\* CollectStatusFromFile finds no file at the path, a file that holds no
\* status, or a server status of a TITLE line and a TIME line.
CollectInstances(t) ==
    /\ proc = "running"
    /\ pc[t] \in {"idle", "names"}
    /\ LET left == DOMAIN exporter.statusPaths
                      \ {results[t][i].instanceName : i \in 1..Len(results[t])}
           openvpnUpDesc == NewDesc("openvpn_up", <<"status_path", "instance_name">>)
           openvpnStatusUpdateTimeDesc ==
               NewDesc("openvpn_status_update_time_seconds",
                       <<"status_path", "instance_name">>)
       IN IF left = {}
          THEN /\ pc' = [pc EXCEPT ![t] = "done"]
               /\ UNCHANGED << out, ret, results >>
          ELSE \E instanceName \in left : \E file \in {"missing", "other", "server"} :
                 LET statusPath == exporter.statusPaths[instanceName]
                     err == IF file = "missing" THEN Error("open", statusPath)
                            ELSE IF file = "other" THEN Error("unexpected", << >>)
                            ELSE NilErr
                     sent == IF file = "server"
                             THEN << MustNewConstMetric(openvpnStatusUpdateTimeDesc, "gauge",
                                        7, << statusPath, instanceName >>) >>
                             ELSE << >>
                 IN /\ out' = [out EXCEPT ![t] =
                                 (@ \o sent) \o
                                 << MustNewConstMetric(openvpnUpDesc, "gauge", UpValue(err),
                                       << statusPath, instanceName >>) >>]
                    /\ ret' = [ret EXCEPT ![t] = err]
                    /\ results' = [results EXCEPT ![t] =
                                     Append(@, [path |-> statusPath,
                                                instanceName |-> instanceName,
                                                err |-> err, consumed |-> 0,
                                                n |-> Len(out[t]) + Len(sent),
                                                nlogs |-> Len(logs[t])])]
                    /\ pc' = [pc EXCEPT ![t] = "names"]
    /\ UNCHANGED << openvpnStatusPaths, exporter, files, budget, inputs, proc, idx, pos,
                    separator, locals, logs, api >>

\* The process after main built the exporter from a flag of at most
\* MaxSegments segments: paths alone, named paths, two paths under one name,
\* and segments with an empty name, an empty path or two colons.
InitInstances ==
    /\ openvpnStatusPaths \in
          LET segment == {S_Empty, <<"p">>, <<"a", ":", "p">>, <<"a", ":", "q">>,
                          <<"b", ":", "p">>, <<":", "p">>, <<"a", ":">>,
                          <<"a", ":", "p", ":", "q">>}
          IN UNION {{Join(f, S_Comma) : f \in [1..n -> segment]} : n \in 1..MaxSegments}
    /\ exporter = [statusPaths |->
                     ParseStatusPaths(Split(openvpnStatusPaths, S_Comma), 1, << >>)]
    /\ files = [p \in PathSet |-> UnknownFile]
    /\ budget = 0
    /\ inputs = {}
    /\ proc = "running"
    /\ pc = [t \in Threads |-> IF t = 1 THEN "idle" ELSE "off"]
    /\ idx = [t \in Threads |-> 0]
    /\ pos = [t \in Threads |-> 0]
    /\ separator = [t \in Threads |-> S_Comma]
    /\ locals = [t \in Threads |-> NewServerLocals]
    /\ out = [t \in Threads |-> << >>]
    /\ logs = [t \in Threads |-> << >>]
    /\ ret = [t \in Threads |-> NilErr]
    /\ results = [t \in Threads |-> << >>]
    /\ api = [t \in Threads |-> NoApi]

SpecInstances == InitInstances /\ [][\E t \in Threads : CollectInstances(t)]_vars

(***************************************************************************)
(* Reading the history of a run: the lines a pass consumed and the         *)
(* observations it sent.                                                   *)
(***************************************************************************)
FileMode == exporter.statusType = S_file

Last(s) == s[Len(s)]

IsPrefix(a, b) == Len(a) <= Len(b) /\ SubSeq(b, 1, Len(a)) = a

\* The bytes reader.Peek saw when the file at path was opened.
PeekOf(path) == Peek(FileBytes(files[path].lines))

IsServerFile(path) ==
    /\ files[path].state = "present"
    /\ HasPrefix(PeekOf(path), S_TITLE_Comma) \/ HasPrefix(PeekOf(path), S_TITLE_Tab)

IsClientFile(path) ==
    /\ files[path].state = "present"
    /\ ~IsServerFile(path)
    /\ HasPrefix(PeekOf(path), S_OpenVPN_STATISTICS)

SeparatorOf(path) == IF HasPrefix(PeekOf(path), S_TITLE_Tab) THEN S_Tab ELSE S_Comma

\* The fields of line k of the file at path.
FieldsAt(path, k) == Split(Menu[files[path].lines[k]], SeparatorOf(path))

\* Line k is a HEADER line announcing the columns of the record type.
IsHeaderLineFor(path, k, type) ==
    LET f == FieldsAt(path, k)
    IN f[1] = S_HEADER /\ Len(f) >= 3 /\ f[2] = type

\* Index in out[t] after which the observations of pass i of Collect call t begin.
PassStart(t, i) == IF i = 1 THEN 0 ELSE results[t][i-1].n + 1

\* The observations pass i of Collect call t sent, the up metric excluded.
Segment(t, i) == SubSeq(out[t], PassStart(t, i) + 1, results[t][i].n)

\* The observations and notices of the pass that is running or about to report.
CurrentSegment(t) ==
    SubSeq(out[t], PassStart(t, Len(results[t]) + 1) + 1, Len(out[t]))

CurrentLogs(t) ==
    SubSeq(logs[t],
           (IF Len(results[t]) = 0 THEN 0 ELSE Last(results[t]).nlogs) + 1,
           Len(logs[t]))

InServerPass(t) ==
    /\ FileMode
    /\ pc[t] \in {"server", "report"}
    /\ IsServerFile(CurrentPath(t))

LineErrorKinds == {"preceded", "columns", "unsupported", "ParseFloat", "ParseTime"}

ConnectedClients == "openvpn_server_connected_clients"
UpName == "openvpn_up"

(***************************************************************************)
(* C1.  A CLIENT_LIST or ROUTING_TABLE line reached before any HEADER line *)
(* (at least 3 fields, field[1] the same record type) of the pass aborts   *)
(* the decode with the "should be preceded by HEADERS" error and sends no  *)
(* observation; a HEADER of another record type does not help.             *)
(***************************************************************************)
C1_Step(t) ==
    (pc[t] = "server" /\ pos'[t] = pos[t] + 1) =>
        LET f == Split(Menu[files'[CurrentPath(t)].lines[pos'[t]]], separator[t])
        IN (/\ f[1] \in {S_CLIENT_LIST, S_ROUTING_TABLE}
            /\ ~\E k \in 1..pos[t] : IsHeaderLineFor(CurrentPath(t), k, f[1]))
           => /\ ret'[t] = Error("preceded", f[1])
              /\ pc'[t] = "report"
              /\ out'[t] = out[t]
              /\ proc' = "running"

\* C1: every scan step on a data line without an earlier HEADER of its type
\* returns the error and sends nothing.
C1_DataLineNeedsHeader == [][\A t \in Threads : C1_Step(t)]_vars

\* A CLIENT_LIST line after a HEADER for ROUTING_TABLE only has been refused.
C1_Witness ==
    /\ InServerPass(1)
    /\ ret[1] = Error("preceded", S_CLIENT_LIST)
    /\ \E k \in 1..(pos[1]-1) : IsHeaderLineFor(CurrentPath(1), k, S_ROUTING_TABLE)

(***************************************************************************)
(* C2.  Two CLIENT_LIST rows of one pass that resolve to the same label    *)
(* tuple produce exactly one received-bytes and one sent-bytes observation *)
(* for that tuple, and the second row is logged, not failed.               *)
(***************************************************************************)
\* The HEADER line in force for the record type at line k.
HeaderInForce(path, k, type) ==
    CHOOSE h \in 1..(k-1) :
        /\ IsHeaderLineFor(path, h, type)
        /\ \A g \in (h+1)..(k-1) : ~IsHeaderLineFor(path, g, type)

\* Line k of the running pass is a CLIENT_LIST row that passed the header
\* and column count checks and announces the column.
IsClientRow(path, k, column) ==
    LET f == FieldsAt(path, k)
    IN /\ f[1] = S_CLIENT_LIST
       /\ \E h \in 1..(k-1) : IsHeaderLineFor(path, h, S_CLIENT_LIST)
       /\ LET names == SubSeq(FieldsAt(path, HeaderInForce(path, k, S_CLIENT_LIST)),
                              3, Len(FieldsAt(path, HeaderInForce(path, k, S_CLIENT_LIST))))
          IN Len(f) = Len(names) + 1 /\ \E i \in 1..Len(names) : names[i] = column

\* The label tuple of the CLIENT_LIST row at line k.
RowLabels(path, k) ==
    LET f == FieldsAt(path, k)
        h == FieldsAt(path, HeaderInForce(path, k, S_CLIENT_LIST))
        header == exporter.openvpnServerHeaders[S_CLIENT_LIST]
    IN EntryLabels(path, header, ColumnValues(header, SubSeq(h, 3, Len(h)), f))

CountOf(seg, desc, labels) ==
    Cardinality({j \in 1..Len(seg) : seg[j].desc = desc /\ seg[j].labels = labels})

\* C2: two rows of a pass with one label tuple leave exactly one observation
\* per byte metric for the tuple and a duplicate notice.
C2_OneObservationPerTuple ==
    \A t \in Threads :
        (InServerPass(t) /\ ret[t].kind \in {"nil", "scan"}) =>
            \A m \in 1..Len(exporter.openvpnServerHeaders[S_CLIENT_LIST].Metrics) :
                LET metric == exporter.openvpnServerHeaders[S_CLIENT_LIST].Metrics[m]
                    path == CurrentPath(t)
                IN \A i, j \in 1..pos[t] :
                     (/\ i < j
                      /\ IsClientRow(path, i, metric.Column)
                      /\ IsClientRow(path, j, metric.Column)
                      /\ RowLabels(path, i) = RowLabels(path, j))
                     => /\ CountOf(CurrentSegment(t), metric.Desc.fqName,
                                   RowLabels(path, j)) = 1
                        /\ \E n \in 1..Len(CurrentLogs(t)) :
                             /\ CurrentLogs(t)[n].column = metric.Column
                             /\ CurrentLogs(t)[n].labels = RowLabels(path, j)

(***************************************************************************)
(* C3.  Duplicate suppression behaves as a set keyed by (metric, label     *)
(* tuple): an observation is suppressed if and only if one with the same   *)
(* metric and the identical ordered tuple was sent earlier in the pass.    *)
(***************************************************************************)
AllMetrics ==
    UNION {{exporter.openvpnServerHeaders[k].Metrics[i] :
               i \in 1..Len(exporter.openvpnServerHeaders[k].Metrics)} :
           k \in DOMAIN exporter.openvpnServerHeaders}

MetricOfColumn(column) == CHOOSE m \in AllMetrics : m.Column = column

\* C3: every notice of a suppressed observation has an identical observation
\* sent earlier in the pass, and no (metric, tuple) is sent twice.
C3_SuppressionIsSetMembership ==
    \A t \in Threads :
        InServerPass(t) =>
            LET seg == CurrentSegment(t)
                lg == CurrentLogs(t)
            IN /\ \A n \in 1..Len(lg) :
                    CountOf(seg, MetricOfColumn(lg[n].column).Desc.fqName,
                            lg[n].labels) >= 1
               /\ \A i, j \in 1..Len(seg) :
                    (i < j /\ seg[i].desc = seg[j].desc
                           /\ seg[i].desc \in {m.Desc.fqName : m \in AllMetrics})
                    => seg[i].labels # seg[j].labels

(***************************************************************************)
(* C4.  The connected-clients gauge of a pass that reaches the end of the  *)
(* stream equals the number of CLIENT_LIST lines of the pass: each adds    *)
(* exactly 1, duplicates included, and no other line changes the count.    *)
(***************************************************************************)
\* The number of lines among the first k of the file whose first field is CLIENT_LIST.
ClientLinesUpTo(path, k) ==
    Cardinality({j \in 1..k : FieldsAt(path, j)[1] = S_CLIENT_LIST})

\* C4: the counter follows the number of CLIENT_LIST lines read, and the gauge
\* at the end of the stream carries that number.
C4_GaugeCountsClientLines ==
    \A t \in Threads :
        FileMode =>
            /\ (pc[t] = "server") =>
                 locals[t].numberConnectedClient = ClientLinesUpTo(CurrentPath(t), pos[t])
            /\ (InServerPass(t) /\ pc[t] = "report" /\ ret[t] = NilErr) =>
                 /\ Len(out[t]) > 0
                 /\ Last(out[t]).desc = ConnectedClients
                 /\ Last(out[t]).value =
                        ClientLinesUpTo(CurrentPath(t), Len(files[CurrentPath(t)].lines))

\* A pass ended with two clients counted although observations of the
\* second CLIENT_LIST line were suppressed.
C4_Witness ==
    /\ InServerPass(1) /\ pc[1] = "report" /\ ret[1] = NilErr
    /\ Last(out[1]).desc = ConnectedClients
    /\ Last(out[1]).value = 2
    /\ Len(CurrentLogs(1)) > 0

(***************************************************************************)
(* C5.  A server pass that reaches the end of the stream sends exactly one *)
(* connected-clients gauge, labelled only by the source, as its last       *)
(* observation (0 without CLIENT_LIST lines); a server pass aborted by a   *)
(* line error sends none, and the client decoder never sends one.          *)
(***************************************************************************)
GaugeCount(seg) == Cardinality({j \in 1..Len(seg) : seg[j].desc = ConnectedClients})

C6_Step(t) ==
    /\ IsPrefix(out[t], out'[t])
    /\ (pc[t] \in {"server", "client"} /\ pos'[t] = pos[t] + 1 /\ ret'[t] # NilErr) =>
          /\ pc'[t] = "report"
          /\ ret'[t].kind \in LineErrorKinds
    /\ (pc[t] \in {"server", "client"} /\ pos'[t] = pos[t] + 1 /\ proc' = "running"
            /\ pc'[t] # "report") => ret'[t] = NilErr
    /\ (FileMode /\ pc[t] = "report" /\ ret[t].kind \in LineErrorKinds) =>
          /\ pos'[t] = pos[t] /\ files' = files
          /\ (pc'[t] # pc[t] =>
                /\ Len(out'[t]) = Len(out[t]) + 1
                /\ Last(out'[t]).desc = UpName
                /\ Last(results'[t]).err = ret[t]
                /\ Last(results'[t]).consumed = pos[t])

\* C6: every step keeps what was sent; a line error ends the decode and is
\* reported as returned.
C6_ErrorIsTerminal == [][\A t \in Threads : C6_Step(t)]_vars

\* A pass failed on a line after earlier lines had produced observations.
C6_Witness ==
    /\ FileMode
    /\ Len(results[1]) >= 1
    /\ results[1][1].err.kind = "ParseFloat"
    /\ results[1][1].n >= 1
    /\ results[1][1].consumed >= 3
    /\ out[1][results[1][1].n + 1].value = 0

(***************************************************************************)
(* C7.  In file mode a Collect call sends exactly one up metric per status *)
(* path, labelled with the path, 1 exactly when opening and decoding       *)
(* returned no error; a failed source does not stop the others, and the up *)
(* metric of a source follows its observations and precedes the next       *)
(* source's.                                                               *)
(***************************************************************************)
\* C7: each reported source has its up metric right after its observations,
\* 1 exactly when it returned no error, and a finished Collect reported all.
C7_UpPerSource ==
    \A t \in Threads :
        FileMode =>
            /\ \A i \in 1..Len(results[t]) :
                 LET r == results[t][i]
                     up == out[t][r.n + 1]
                 IN /\ r.path = StatusPaths[i]
                    /\ Len(out[t]) > r.n
                    /\ up.desc = UpName /\ up.labels = << r.path >>
                    /\ up.value \in {0, 1}
                    /\ (up.value = 1) <=> (r.err = NilErr)
                    /\ \A j \in 1..Len(Segment(t, i)) :
                         /\ Segment(t, i)[j].desc # UpName
                         /\ Segment(t, i)[j].labels[1] = r.path
            /\ (pc[t] = "done") =>
                 /\ Len(results[t]) = Len(StatusPaths)
                 /\ Len(out[t]) = Last(results[t]).n + 1

\* The first source failed, the second was decoded and reported up.
C7_Witness ==
    /\ FileMode /\ pc[1] = "done"
    /\ results[1][1].err # NilErr
    /\ results[1][2].err = NilErr
    /\ Len(Segment(1, 2)) >= 2

(***************************************************************************)
(* C8.  In API mode every Collect call sends exactly one up metric: 1 when *)
(* the scrape and the JSON decode succeeded, 0 when either returned an     *)
(* error, and the process keeps running.                                   *)
(***************************************************************************)
UpCount(seq) == Cardinality({j \in 1..Len(seq) : seq[j].desc = UpName})

\* C8: in API mode the process never exits and a finished Collect has sent
\* exactly one up metric, 0 on error.
C8_ApiUp ==
    \A t \in Threads :
        (exporter.statusType = S_api) =>
            /\ proc # "exit"
            /\ (pc[t] = "done") =>
                 /\ UpCount(out[t]) = 1
                 /\ \A j \in 1..Len(out[t]) :
                      out[t][j].desc = UpName =>
                        out[t][j].value = (IF Last(results[t]).err = NilErr THEN 1 ELSE 0)

(***************************************************************************)
(* C9.  Concurrent decodes do not share state: whatever the interleaving   *)
(* of the line steps of concurrent Collect calls, the observations and the *)
(* result of each source equal those of the source decoded alone, the      *)
(* header map, dedupe record and client counter of a decode are its own,   *)
(* and no step modifies the header directive table.                        *)
(***************************************************************************)
\* One more line decoded after the decode reached prev.
AloneLine(path, prev, text) ==
    LET o == IF IsServerFile(path)
             THEN ServerLine(exporter, path, prev.locals, text, SeparatorOf(path))
             ELSE ClientLine(exporter, path, prev.locals, text)
    IN [locals |-> o.locals, out |-> prev.out \o o.emit, err |-> o.err]

RECURSIVE Alone(_, _)
\* The first k lines of the file at path decoded by a single decode.
Alone(path, k) ==
    IF k = 0
    THEN [locals |-> NewServerLocals, out |-> << >>, err |-> NilErr]
    ELSE AloneLine(path, Alone(path, k - 1), Menu[files[path].lines[k]])

\* What a pass over the source that consumed k lines and returned err sends
\* when nothing else runs.
AloneSegment(path, k, err) ==
    IF files[path].state # "present" THEN << >>
    ELSE IF IsServerFile(path) /\ err.kind \in {"nil", "scan"}
    THEN Append(Alone(path, k).out,
                [desc |-> ConnectedClients, vtype |-> "gauge",
                 value |-> ClientLinesUpTo(path, k), labels |-> << path >>])
    ELSE Alone(path, k).out

\* The error a pass over the source that consumed k lines returns, a read
\* error of the scanner apart.
AloneErr(path, k) ==
    IF files[path].state = "missing" THEN Error("open", path)
    ELSE IF ~IsServerFile(path) /\ ~IsClientFile(path)
    THEN Error("unexpected", PeekOf(path))
    ELSE Alone(path, k).err

\* The pass Collect call t is about to report sent what the source decoded
\* alone sends, and returns its error.
PassAsAlone(t) ==
    /\ CurrentSegment(t) = AloneSegment(CurrentPath(t), pos[t], ret[t])
    /\ ret[t].kind # "scan" => ret[t] = AloneErr(CurrentPath(t), pos[t])

\* A step of another Collect call leaves the decode of t as it was.
C9_Untouched(t) ==
    (pc'[t] = pc[t] /\ pos'[t] = pos[t]) =>
        /\ locals'[t] = locals[t]
        /\ out'[t] = out[t]
        /\ logs'[t] = logs[t]
        /\ ret'[t] = ret[t]
        /\ results'[t] = results[t]

\* Reporting a pass adds the up metric to what the pass sent and nothing else.
C9_Reported(t) ==
    (pc[t] = "report" /\ pc'[t] # "report") =>
        /\ PassAsAlone(t)
        /\ SubSeq(out'[t], 1, Len(out[t])) = out[t]
        /\ Len(out'[t]) = Len(out[t]) + 1
        /\ Last(out'[t]).desc = UpName
        /\ Last(results'[t]).err = ret[t]

C9_Step ==
    /\ exporter' = exporter
    /\ \A t \in Threads : C9_Untouched(t) /\ C9_Reported(t)

\* C9: no step changes the exporter or the decode of another Collect call,
\* and every reported pass equals the source decoded alone.
C9_NoSharedDecodeState == [][C9_Step]_vars

\* Two Collect calls are decoding the same server file at different lines,
\* one of them past a data row.
C9_Witness ==
    /\ pc[1] = "server" /\ pc[2] = "server"
    /\ idx[1] = idx[2]
    /\ pos[1] < pos[2]
    /\ locals[2].numberConnectedClient = 1
    /\ locals[1].headersFound = << >>
    /\ Len(CurrentSegment(2)) = 2

(***************************************************************************)
(* C10. Whatever the lines of a text status file (empty lines, lines       *)
(* without separator, rows with too few or too many fields, HEADER lines   *)
(* with duplicate or unknown columns), the detector and the two decoders   *)
(* complete or return an error: the process never panics.                  *)
(***************************************************************************)
\* C10: in file mode the process never panics.
C10_NoPanicOnText == FileMode => proc # "panic"

\* A CLIENT_LIST row with fewer fields than its HEADER announces was refused.
C10_Witness ==
    /\ InServerPass(1) /\ pc[1] = "report"
    /\ ret[1] = Error("columns", S_CLIENT_LIST)
    /\ Len(FieldsAt(CurrentPath(1), pos[1])) <
          Len(locals[1].headersFound[S_CLIENT_LIST]) + 1
    /\ proc = "running"

(***************************************************************************)
(* C11.  The format of a status file is detected from its first at most 18 *)
(* bytes alone: "TITLE," selects the server decoder with the comma,        *)
(* "TITLE<TAB>" the server decoder with the tab, "OpenVPN STATISTICS" the  *)
(* client decoder, tested in this order; files with the same first 18      *)
(* bytes are routed alike whatever follows.                                *)
(***************************************************************************)
\* The first 18 bytes of the file at path, all of them when it is shorter.
Leading(path) ==
    LET b == FileBytes(files[path].lines)
    IN [i \in 1..(IF Len(b) < 18 THEN Len(b) ELSE 18) |-> b[i]]

StartsWith(b, literal) ==
    /\ Len(literal) <= Len(b)
    /\ \A i \in 1..Len(literal) : b[i] = literal[i]

\* The decoder and separator the leading bytes b select.
Route(b) ==
    IF StartsWith(b, S_TITLE \o <<",">>) THEN [decoder |-> "server", separator |-> <<",">>]
    ELSE IF StartsWith(b, S_TITLE \o <<"\t">>)
    THEN [decoder |-> "server", separator |-> <<"\t">>]
    ELSE IF StartsWith(b, S_OpenVPN_STATISTICS)
    THEN [decoder |-> "client", separator |-> << >>]
    ELSE [decoder |-> "none", separator |-> << >>]

\* C11: the decoder that runs on a file, and its separator, are those its
\* leading bytes select, however many lines of the file have been read.
C11_RoutedByLeadingBytes ==
    \A t \in Threads :
        (FileMode /\ pc[t] \in {"server", "client", "report"}
                  /\ files[CurrentPath(t)].state = "present") =>
            LET r == Route(Leading(CurrentPath(t)))
            IN /\ (pc[t] = "server") =>
                     (r.decoder = "server" /\ separator[t] = r.separator)
               /\ (pc[t] = "client") => r.decoder = "client"
               /\ (pc[t] = "report") =>
                     ((ret[t].kind = "unexpected") <=> (r.decoder = "none"))
               /\ (pc[t] = "report" /\ r.decoder = "client") =>
                     \A j \in 1..Len(CurrentSegment(t)) :
                         CurrentSegment(t)[j].desc # ConnectedClients
               /\ (pc[t] = "report" /\ r.decoder = "server" /\ ret[t] = NilErr) =>
                     Last(CurrentSegment(t)).desc = ConnectedClients

\* The second file has the leading bytes of the first and other lines after
\* them; both went to the server decoder.
C11_Witness ==
    /\ FileMode /\ idx[1] = 2 /\ pc[1] = "server" /\ pos[1] = 2
    /\ Leading(StatusPaths[1]) = Leading(StatusPaths[2])
    /\ files[StatusPaths[1]].lines # files[StatusPaths[2]].lines
    /\ results[1][1].err = NilErr
    /\ Last(Segment(1, 1)).desc = ConnectedClients

(***************************************************************************)
(* C12.  A file whose leading bytes match none of the three prefixes, the  *)
(* empty file and a file shorter than a prefix included, fails with the    *)
(* "unexpected file contents" error carrying those bytes; no decoder runs  *)
(* and nothing is sent for the source before the error is returned.        *)
(***************************************************************************)
\* C12: a pass over a file without a known prefix returns the error with the
\* leading bytes, having read no line and sent nothing.
C12_UnexpectedContents ==
    \A t \in Threads :
        FileMode =>
            /\ (pc[t] = "report" /\ files[CurrentPath(t)].state = "present"
                    /\ Route(Leading(CurrentPath(t))).decoder = "none") =>
                  /\ ret[t] = [kind |-> "unexpected", arg |-> Leading(CurrentPath(t))]
                  /\ pos[t] = 0
                  /\ CurrentSegment(t) = << >>
                  /\ CurrentLogs(t) = << >>
            /\ \A i \in 1..Len(results[t]) :
                  (results[t][i].err.kind = "unexpected") =>
                      /\ results[t][i].err.arg = Leading(results[t][i].path)
                      /\ results[t][i].consumed = 0
                      /\ Segment(t, i) = << >>

\* The first file was empty, the second is shorter than a prefix.
C12_Witness ==
    /\ FileMode /\ idx[1] = 2 /\ pc[1] = "report"
    /\ results[1][1].err = [kind |-> "unexpected", arg |-> << >>]
    /\ ret[1].kind = "unexpected"
    /\ Len(ret[1].arg) \in 1..5
    /\ files[StatusPaths[2]].complete

(***************************************************************************)
(* C13.  In the server decoder a CLIENT_LIST or ROUTING_TABLE line whose   *)
(* field count differs from the number of columns of the most recent       *)
(* HEADER of its type plus one aborts the decode with the "describes a     *)
(* different number of columns" error and sends nothing; a line with that  *)
(* field count never fails with this error.                                *)
(***************************************************************************)
\* The column names the most recent HEADER before line k announced for type.
AnnouncedColumns(path, k, type) ==
    LET h == FieldsAt(path, HeaderInForce(path, k, type))
    IN [i \in 1..(Len(h) - 2) |-> h[i + 2]]

C13_Step(t) ==
    (pc[t] = "server" /\ pos'[t] = pos[t] + 1) =>
        LET path == CurrentPath(t)
            f == Split(Menu[files'[path].lines[pos'[t]]], separator[t])
        IN (/\ f[1] \in {S_CLIENT_LIST, S_ROUTING_TABLE}
            /\ \E k \in 1..pos[t] : IsHeaderLineFor(path, k, f[1]))
           => IF Len(f) # Len(AnnouncedColumns(path, pos[t] + 1, f[1])) + 1
              THEN /\ ret'[t] = [kind |-> "columns", arg |-> f[1]]
                   /\ pc'[t] = "report"
                   /\ out'[t] = out[t]
                   /\ proc' = "running"
              ELSE ret'[t].kind # "columns"

\* C13: every scan step on a data line with an announced header returns the
\* column count error exactly when the field count is not the announced
\* column count plus one, and then sends nothing.
C13_ColumnCount == [][\A t \in Threads : C13_Step(t)]_vars

\* A row of five fields was refused after a second HEADER announced one column.
C13_Witness ==
    /\ InServerPass(1) /\ pc[1] = "report"
    /\ ret[1] = [kind |-> "columns", arg |-> S_CLIENT_LIST]
    /\ pos[1] = 4
    /\ Len(FieldsAt(CurrentPath(1), pos[1])) = 5
    /\ Len(AnnouncedColumns(CurrentPath(1), pos[1], S_CLIENT_LIST)) = 1
    /\ \E k \in 1..pos[1] :
          /\ IsHeaderLineFor(CurrentPath(1), k, S_CLIENT_LIST)
          /\ Len(FieldsAt(CurrentPath(1), k)) = 6

(***************************************************************************)
(* C14.  The label tuple of every observation of a data record is the      *)
(* source followed by the values of the directive's label columns in the   *)
(* directive's order, not the order of the HEADER line: each value is the  *)
(* field at the position where the HEADER announced the column (the last   *)
(* such position when it announced the name more than once).               *)
(***************************************************************************)
\* The last position at which names holds the column, 0 when it does not.
LastPosition(names, column) ==
    IF \E n \in 1..Len(names) : names[n] = column
    THEN CHOOSE n \in 1..Len(names) :
            names[n] = column /\ \A m \in (n+1)..Len(names) : names[m] # column
    ELSE 0

C14_Step(t) ==
    (pc[t] = "server" /\ pos'[t] = pos[t] + 1) =>
        LET path == CurrentPath(t)
            f == Split(Menu[files'[path].lines[pos'[t]]], separator[t])
        IN (f[1] \in {S_CLIENT_LIST, S_ROUTING_TABLE}) =>
             \A j \in (Len(out[t]) + 1)..Len(out'[t]) :
                LET columns == exporter.openvpnServerHeaders[f[1]].LabelColumns
                    names == AnnouncedColumns(path, pos[t] + 1, f[1])
                    labels == out'[t][j].labels
                IN /\ Len(labels) = Len(columns) + 1
                   /\ labels[1] = path
                   /\ \A i \in 1..Len(columns) :
                        LastPosition(names, columns[i]) # 0 =>
                           labels[i + 1] = f[LastPosition(names, columns[i]) + 1]

\* C14: the observations a data line adds carry the source and then, in the
\* directive's order, the fields at the announced positions of its columns.
C14_LabelsInDeclaredOrder == [][\A t \in Threads : C14_Step(t)]_vars

\* After a HEADER announcing Username before Common Name, the row a,b was
\* exported with common name b first and username a last.
C14_Witness ==
    /\ InServerPass(1) /\ pos[1] = 3
    /\ FieldsAt(CurrentPath(1), 2) =
          << S_HEADER, S_CLIENT_LIST, S_Username, S_Common_Name, S_Bytes_Received,
             S_Bytes_Sent >>
    /\ FieldsAt(CurrentPath(1), 3) = << S_CLIENT_LIST, S_a, S_b, <<"1">>, <<"2">> >>
    /\ Len(CurrentSegment(1)) = 2
    /\ \A j \in 1..2 :
          CurrentSegment(1)[j].labels =
              << CurrentPath(1), S_b, S_Empty, S_Empty, S_Empty, S_a >>

(***************************************************************************)
(* C15.  In both text decoders a line that matches no recognized directive *)
(* with its required field count aborts the decode with the "unsupported   *)
(* key" error: an unknown first field, the empty line, END with more than  *)
(* one field, HEADER with fewer than 3, TIME with other than 3, TITLE with *)
(* other than 2 in the server decoder; an unknown key, or a counter name,  *)
(* Updated, END or OpenVPN STATISTICS with the wrong field count in the    *)
(* client decoder.  Such a line is never ignored.                          *)
(***************************************************************************)
\* The lines the server decoder has a branch for.
ServerDirective(f) ==
    \/ f[1] = S_END /\ Len(f) = 1
    \/ f[1] = S_GLOBAL_STATS
    \/ f[1] = S_HEADER /\ Len(f) >= 3
    \/ f[1] = S_TIME /\ Len(f) = 3
    \/ f[1] = S_TITLE /\ Len(f) = 2
    \/ f[1] \in {S_CLIENT_LIST, S_ROUTING_TABLE}

\* The names of the traffic counters of a client status file.
CounterNames ==
    {S_TUN_TAP_read, S_TUN_TAP_write, S_TCP_UDP_read, S_TCP_UDP_write, S_Auth_read,
     S_pre_compress, S_post_compress, S_pre_decompress, S_post_decompress}

\* The lines the client decoder has a branch for.
ClientDirective(f) ==
    \/ f[1] = S_END /\ Len(f) = 1
    \/ f[1] = S_OpenVPN_STATISTICS /\ Len(f) = 1
    \/ f[1] = S_Updated /\ Len(f) = 2
    \/ f[1] \in CounterNames /\ Len(f) = 2

C15_Step(t) ==
    (pc[t] \in {"server", "client"} /\ pos'[t] = pos[t] + 1) =>
        LET text == Menu[files'[CurrentPath(t)].lines[pos'[t]]]
            f == IF pc[t] = "server" THEN Split(text, separator[t])
                                     ELSE Split(text, <<",">>)
            known == IF pc[t] = "server" THEN ServerDirective(f) ELSE ClientDirective(f)
        IN IF known
           THEN ret'[t].kind # "unsupported"
           ELSE /\ ret'[t] = [kind |-> "unsupported", arg |-> f[1]]
                /\ pc'[t] = "report"
                /\ out'[t] = out[t]
                /\ proc' = "running"

\* C15: a scan step of either decoder returns the unsupported key error,
\* sending nothing, exactly when the line is no directive with its field count.
C15_UnsupportedKey == [][\A t \in Threads : C15_Step(t)]_vars

\* The server decoder refused END with two fields in the first file, the
\* client decoder refuses Updated with three fields in the second.
C15_Witness ==
    /\ FileMode /\ idx[1] = 2 /\ pc[1] = "report"
    /\ results[1][1].err = [kind |-> "unsupported", arg |-> S_END]
    /\ IsServerFile(StatusPaths[1])
    /\ IsClientFile(StatusPaths[2])
    /\ ret[1] = [kind |-> "unsupported", arg |-> S_Updated]
    /\ Len(FieldsAt(StatusPaths[2], pos[1])) = 3

(***************************************************************************)
(* C16.  In the server decoder a TIME line of exactly 3 fields with a      *)
(* numeric third field sends exactly one status_update_time_seconds gauge  *)
(* with that number, labelled by the source only; with a third field that  *)
(* is no number it aborts the decode with a parse error and sends nothing. *)
(***************************************************************************)
Digits == << "0", "1", "2", "3", "4", "5", "6", "7", "8", "9" >>

IsDecimal(s) == Len(s) > 0 /\ \A i \in 1..Len(s) : \E d \in 1..10 : Digits[d] = s[i]

RECURSIVE Number(_)
\* The number a run of decimal digits denotes.
Number(s) ==
    IF Len(s) = 0 THEN 0
    ELSE Number([i \in 1..(Len(s) - 1) |-> s[i]]) * 10
         + (CHOOSE d \in 1..10 : Digits[d] = s[Len(s)]) - 1

C16_Step(t) ==
    (pc[t] = "server" /\ pos'[t] = pos[t] + 1) =>
        LET path == CurrentPath(t)
            f == Split(Menu[files'[path].lines[pos'[t]]], separator[t])
        IN (f[1] = S_TIME /\ Len(f) = 3) =>
             IF IsDecimal(f[3])
             THEN /\ out'[t] = Append(out[t],
                        [desc |-> "openvpn_status_update_time_seconds",
                         vtype |-> "gauge", value |-> Number(f[3]),
                         labels |-> << path >>])
                  /\ ret'[t] = NilErr
                  /\ pc'[t] = "server"
             ELSE /\ ret'[t] = [kind |-> "ParseFloat", arg |-> f[3]]
                  /\ pc'[t] = "report"
                  /\ out'[t] = out[t]

\* C16: a scan step on a TIME line of three fields appends the one gauge
\* when the third field is a number and returns the parse error otherwise.
C16_ServerTime == [][\A t \in Threads : C16_Step(t)]_vars

\* A TIME line was exported and the next TIME line, with the third field x,
\* was refused.
C16_Witness ==
    /\ InServerPass(1) /\ pc[1] = "report" /\ pos[1] = 3
    /\ ret[1] = [kind |-> "ParseFloat", arg |-> S_x]
    /\ FieldsAt(CurrentPath(1), 3)[1] = S_TIME
    /\ CurrentSegment(1) =
          << [desc |-> "openvpn_status_update_time_seconds", vtype |-> "gauge",
              value |-> 7, labels |-> << CurrentPath(1) >>] >>

(***************************************************************************)
(* C17.  In the client decoder a line of exactly 2 fields whose first is   *)
(* one of the nine traffic counter names sends exactly one counter         *)
(* observation of the metric of that name, with the number in the second   *)
(* field and the source as only label; a second field that is no number    *)
(* aborts the decode with a parse error and sends nothing.                 *)
(***************************************************************************)
\* The metric exported for a traffic counter name.
CounterMetric(name) ==
    CASE name = S_TUN_TAP_read -> "openvpn_client_tun_tap_read_bytes_total"
      [] name = S_TUN_TAP_write -> "openvpn_client_tun_tap_write_bytes_total"
      [] name = S_TCP_UDP_read -> "openvpn_client_tcp_udp_read_bytes_total"
      [] name = S_TCP_UDP_write -> "openvpn_client_tcp_udp_write_bytes_total"
      [] name = S_Auth_read -> "openvpn_client_auth_read_bytes_total"
      [] name = S_pre_compress -> "openvpn_client_pre_compress_bytes_total"
      [] name = S_post_compress -> "openvpn_client_post_compress_bytes_total"
      [] name = S_pre_decompress -> "openvpn_client_pre_decompress_bytes_total"
      [] name = S_post_decompress -> "openvpn_client_post_decompress_bytes_total"

C17_Step(t) ==
    (pc[t] = "client" /\ pos'[t] = pos[t] + 1) =>
        LET path == CurrentPath(t)
            f == Split(Menu[files'[path].lines[pos'[t]]], <<",">>)
        IN (Len(f) = 2 /\ f[1] \in CounterNames) =>
             IF IsDecimal(f[2])
             THEN /\ out'[t] = Append(out[t],
                        [desc |-> CounterMetric(f[1]), vtype |-> "counter",
                         value |-> Number(f[2]), labels |-> << path >>])
                  /\ ret'[t] = NilErr
                  /\ pc'[t] = "client"
             ELSE /\ ret'[t] = [kind |-> "ParseFloat", arg |-> f[2]]
                  /\ pc'[t] = "report"
                  /\ out'[t] = out[t]

\* C17: a scan step of the client decoder on a counter line appends the one
\* counter observation of its metric, or returns the parse error.
C17_ClientCounters == [][\A t \in Threads : C17_Step(t)]_vars

\* Two counters were exported and a third, with the value x, was refused.
C17_Witness ==
    /\ FileMode /\ pc[1] = "report" /\ IsClientFile(CurrentPath(1)) /\ pos[1] = 4
    /\ ret[1] = [kind |-> "ParseFloat", arg |-> S_x]
    /\ CurrentSegment(1) =
          << [desc |-> "openvpn_client_post_decompress_bytes_total",
              vtype |-> "counter", value |-> 42, labels |-> << CurrentPath(1) >>],
             [desc |-> "openvpn_client_tun_tap_read_bytes_total",
              vtype |-> "counter", value |-> 5, labels |-> << CurrentPath(1) >>] >>

(***************************************************************************)
(* C18.  In the client decoder an Updated line of exactly 2 fields whose   *)
(* second field is a timestamp of the layout "Mon Jan 2 15:04:05 2006"     *)
(* yields one status_update_time_seconds gauge holding the Unix seconds of *)
(* that timestamp; any other second field ends the decode with the         *)
(* time-parse error and yields nothing.                                    *)
(*                                                                         *)
(* The seconds are stated here as a table, computed outside the model (and *)
(* for the second entry given in the README as 1.490092749e+09), with the  *)
(* local timezone taken to be UTC.  Of the second fields the model feeds   *)
(* the decoder, those of the table are the ones the layout accepts.        *)
(***************************************************************************)
C18_Seconds ==
    { << <<"T","h","u"," ","J","u","n"," ","1","8"," ","0","4",":","2","3",":","0","3"," ","2","0","1","5">>, 1434601383 >>,
      << <<"T","u","e"," ","M","a","r"," ","2","1"," ","1","0",":","3","9",":","0","9"," ","2","0","1","7">>, 1490092749 >>,
      << <<"M","o","n"," ","F","e","b"," ","2","9"," ","2","3",":","5","9",":","5","9"," ","2","0","1","6">>, 1456790399 >>,
      << <<"T","h","u"," ","J","a","n"," ","1"," ","0",":","0","0",":","0","0"," ","1","9","7","0">>, 0 >> }

C18_Step(t) ==
    (pc[t] = "client" /\ pos'[t] = pos[t] + 1) =>
        LET path == CurrentPath(t)
            f == Split(Menu[files'[path].lines[pos'[t]]], <<",">>)
        IN (Len(f) = 2 /\ f[1] = S_Updated) =>
             IF \E p \in C18_Seconds : p[1] = f[2]
             THEN /\ out'[t] = Append(out[t],
                        [desc |-> "openvpn_status_update_time_seconds",
                         vtype |-> "gauge",
                         value |-> (CHOOSE p \in C18_Seconds : p[1] = f[2])[2],
                         labels |-> << path >>])
                  /\ ret'[t] = NilErr
                  /\ pc'[t] = "client"
             ELSE /\ ret'[t] = [kind |-> "ParseTime", arg |-> f[2]]
                  /\ pc'[t] = "report"
                  /\ out'[t] = out[t]

\* C18: a scan step of the client decoder on an Updated line of two fields
\* appends the one gauge with the Unix seconds of the timestamp, or returns
\* the time-parse error and appends nothing.
C18_ClientUpdated == [][\A t \in Threads : C18_Step(t)]_vars

\* The timestamp of 29 February 2016 was exported and the next line, dated
\* 30 February, was refused.
C18_Witness ==
    /\ FileMode /\ pc[1] = "report" /\ IsClientFile(CurrentPath(1)) /\ pos[1] = 3
    /\ ret[1].kind = "ParseTime"
    /\ FieldsAt(CurrentPath(1), 3) = Split(UpdatedLines[4], <<",">>)
    /\ CurrentSegment(1) =
          << [desc |-> "openvpn_status_update_time_seconds", vtype |-> "gauge",
              value |-> 1456790399, labels |-> << CurrentPath(1) >>] >>

(***************************************************************************)
(* C19.  In the API decoder a document whose structure is malformed at an  *)
(* expected key makes the decode return an error: the process does not     *)
(* crash and the malformed part is not skipped.                            *)
(***************************************************************************)
\* The indices of an item the decoder reads, per category.
C19_UsedIndices(category) ==
    IF category = S_client_list THEN {0, 1, 2, 4, 5, 7, 8} ELSE {0, 1, 2, 4}

\* The structure the decoder expects of one instance.
C19_WellFormedInstance(data) ==
    /\ data.type = "object"
    /\ \A category \in DOMAIN data.val :
         LET d == data.val[category]
         IN /\ category = S_title => d.type = "string"
            /\ category = S_time =>
                 /\ d.type = "array"
                 /\ Len(d.val) >= 2
                 /\ d.val[2].type = "string"
            /\ category \in {S_client_list, S_routing_table} =>
                 /\ d.type = "array"
                 /\ \A i \in 1..Len(d.val) :
                      /\ d.val[i].type = "array"
                      /\ \A index \in C19_UsedIndices(category) :
                           /\ index + 1 <= Len(d.val[i].val)
                           /\ d.val[i].val[index + 1].type = "string"

C19_WellFormed(doc) == \A instanceId \in DOMAIN doc : C19_WellFormedInstance(doc[instanceId])

\* C19: while and after a malformed document is decoded the process has not
\* panicked, and the finished decode of a malformed document returned an error.
C19_SchemaError ==
    \A t \in Threads :
        (/\ exporter.statusType = S_api
         /\ pc[t] \in {"apiloop", "apireport", "done"}
         /\ ret[t].kind # "json"
         /\ ~C19_WellFormed(api[t].doc)) =>
            /\ proc # "panic"
            /\ pc[t] \in {"apireport", "done"} => ret[t] # NilErr

\* The decode of a document whose title is a number panicked.
C19_Panicked ==
    /\ exporter.statusType = S_api /\ proc = "panic" /\ pc[1] = "apiloop"
    /\ api[1].doc[S_openvpn_0].val[S_title].type = "number"

(***************************************************************************)
(* C20.  For a well-formed document the API decoder sends one observation  *)
(* per metric for every client_list and routing_table item, suppressing    *)
(* none and requiring no HEADER, and on success sends exactly one          *)
(* server_connected_clients gauge, labelled by the source identifier       *)
(* alone, holding the number of client_list items of all instances.        *)
(***************************************************************************)
\* The items of a category in all instances of a document, each named by
\* its instance and its position.
C20_Items(doc, category) ==
    UNION { IF doc[id].type = "object" /\ category \in DOMAIN doc[id].val
            THEN {<< id, i >> : i \in 1..Len(doc[id].val[category].val)}
            ELSE {} : id \in DOMAIN doc }

C20_ItemAt(doc, category, p) == doc[p[1]].val[category].val[p[2]].val

\* The positions of the observations of a metric among those sent.
C20_Sent(seq, name) == {j \in 1..Len(seq) : seq[j].desc = name}

\* The observations of a metric are as many as the items, and every item's
\* value, read at the given index, was sent under the source identifier.
C20_OnePerItem(seq, doc, category, name, index) ==
    /\ Cardinality(C20_Sent(seq, name)) = Cardinality(C20_Items(doc, category))
    /\ \A p \in C20_Items(doc, category) :
         \E j \in C20_Sent(seq, name) :
            /\ seq[j].value = Number(C20_ItemAt(doc, category, p)[index + 1].val)
            /\ seq[j].labels[1] = S_api

\* C20: no decode of a well-formed document panics, and one that returned no
\* error sent one observation per metric and item and, last, the one
\* connected clients gauge with the number of client_list items of all
\* instances.
C20_ApiObservations ==
    /\ (exporter.statusType = S_api /\ \A t \in Threads : C19_WellFormed(api[t].doc))
          => proc # "panic"
    /\ \A t \in Threads :
        (/\ exporter.statusType = S_api
         /\ pc[t] = "apireport"
         /\ ret[t] = [kind |-> "nil", arg |-> << >>]
         /\ C19_WellFormed(api[t].doc)) =>
            /\ C20_OnePerItem(out[t], api[t].doc, S_client_list,
                              "openvpn_server_client_received_bytes_total", 4)
            /\ C20_OnePerItem(out[t], api[t].doc, S_client_list,
                              "openvpn_server_client_sent_bytes_total", 5)
            /\ C20_OnePerItem(out[t], api[t].doc, S_routing_table,
                              "openvpn_server_route_last_reference_time_seconds", 4)
            /\ C20_Sent(out[t], "openvpn_server_connected_clients") = {Len(out[t])}
            /\ Last(out[t]).labels = << S_api >>
            /\ Last(out[t]).vtype = "gauge"
            /\ Last(out[t]).value = Cardinality(C20_Items(api[t].doc, S_client_list))

\* A document of two instances, each with the same one client, was decoded:
\* the gauge holds 2 and the client's bytes received were sent twice under
\* the same labels.
C20_Witness ==
    /\ exporter.statusType = S_api /\ pc[1] = "apireport"
    /\ ret[1] = [kind |-> "nil", arg |-> << >>]
    /\ DOMAIN api[1].doc = {S_openvpn_0, S_openvpn_1}
    /\ Last(out[1]).desc = "openvpn_server_connected_clients"
    /\ Last(out[1]).value = 2
    /\ \E i, j \in C20_Sent(out[1], "openvpn_server_client_received_bytes_total") :
          i # j /\ out[1][i] = out[1][j]

(***************************************************************************)
(* C21.  The one boolean ignoreIndividuals selects the label set of the    *)
(* CLIENT_LIST and ROUTING_TABLE metrics.  When false a CLIENT_LIST        *)
(* observation carries (source, Common Name, Connected Since (time_t),     *)
(* Real Address, Virtual Address, Username) and a ROUTING_TABLE            *)
(* observation (source, Common Name, Real Address, Virtual Address); when  *)
(* true both carry (source, Common Name) alone, so records that differ in  *)
(* nothing but address, connection time or user name get one label tuple.  *)
(***************************************************************************)
\* The label columns of a record type under the switch.
C21_Columns(type, ignoreIndividuals) ==
    IF ignoreIndividuals THEN << S_Common_Name >>
    ELSE IF type = S_CLIENT_LIST
    THEN << S_Common_Name, S_Connected_Since, S_Real_Address, S_Virtual_Address,
            S_Username >>
    ELSE << S_Common_Name, S_Real_Address, S_Virtual_Address >>

\* The label tuple of the record f of the file at path under the column
\* names its HEADER announced.
C21_Tuple(path, f, names, ignoreIndividuals) ==
    LET columns == C21_Columns(f[1], ignoreIndividuals)
    IN << path >> \o
       [i \in 1..Len(columns) |->
          IF LastPosition(names, columns[i]) = 0 THEN << >>
          ELSE f[LastPosition(names, columns[i]) + 1]]

C21_Step(t) ==
    (pc[t] = "server" /\ pos'[t] = pos[t] + 1) =>
        LET path == CurrentPath(t)
            f == Split(Menu[files'[path].lines[pos'[t]]], separator[t])
        IN (/\ f[1] \in {S_CLIENT_LIST, S_ROUTING_TABLE}
            /\ \E k \in 1..pos[t] : IsHeaderLineFor(path, k, f[1])) =>
             \A b \in BOOLEAN :
                (exporter = NewOpenVPNExporter(exporter.statusPaths, b,
                                               exporter.statusType)) =>
                   LET tuple == C21_Tuple(path, f,
                                    AnnouncedColumns(path, pos[t] + 1, f[1]), b)
                   IN /\ \A j \in (Len(out[t]) + 1)..Len(out'[t]) :
                            out'[t][j].labels = tuple
                      /\ \A j \in (Len(logs[t]) + 1)..Len(logs'[t]) :
                            logs'[t][j].labels = tuple

\* C21: the observations and duplicate notices a data line adds carry the
\* label tuple of the columns ignoreIndividuals selects.
C21_LabelSetBySwitch == [][\A t \in Threads : C21_Step(t)]_vars

\* With ignoreIndividuals false two clients of one common name were exported
\* under their full identities.
C21_Witness ==
    /\ InServerPass(1) /\ pos[1] = 4
    /\ FieldsAt(CurrentPath(1), 2)[2] = S_CLIENT_LIST
    /\ Len(CurrentSegment(1)) = 4
    /\ \A j \in 1..2 :
          CurrentSegment(1)[j].labels =
              << CurrentPath(1), S_a, <<"7">>, <<"r">>, <<"w">>, <<"u">> >>
    /\ \A j \in 3..4 :
          CurrentSegment(1)[j].labels =
              << CurrentPath(1), S_a, <<"8">>, <<"s">>, <<"y">>, <<"v">> >>

(***************************************************************************)
(* C22.  Detecting the format does not consume the stream: the decoder     *)
(* selected after the peek reads the file from its first byte.  The first  *)
(* line it processes is the first line of the file, the one that begins    *)
(* with the detected prefix, and after it every line of the file is        *)
(* processed once, in order.                                               *)
(***************************************************************************)
\* The outcome of the running decoder of call t on the given line.
C22_Outcome(t, line) ==
    IF pc[t] = "server"
    THEN ServerLine(exporter, CurrentPath(t), locals[t], line, separator[t])
    ELSE ClientLine(exporter, CurrentPath(t), locals[t], line)

C22_Step(t) ==
    /\ (pc[t] = "open" /\ pc'[t] \in {"server", "client"}) => pos'[t] = 0
    /\ (pc[t] \in {"server", "client"}) =>
          /\ pos'[t] \in {pos[t], pos[t] + 1}
          /\ (pos'[t] = pos[t] + 1) =>
                LET line == Menu[files'[CurrentPath(t)].lines[pos[t] + 1]]
                    o == C22_Outcome(t, line)
                IN /\ (pos[t] = 0) =>
                         StartsWith(line, IF pc[t] = "server"
                                          THEN S_TITLE \o separator[t]
                                          ELSE S_OpenVPN_STATISTICS)
                   /\ out'[t] = out[t] \o o.emit
                   /\ locals'[t] = o.locals
                   /\ ret'[t] = o.err

\* C22: a decoder starts at line 0 of the file it was selected for, its
\* first line begins with the detected prefix, and each of its steps has
\* the outcome of the next line of the file.
C22_PeekKeepsStream == [][\A t \in Threads : C22_Step(t)]_vars

\* A second scrape decoded the file the first had read to its end: after the
\* peek it processed the TITLE line, the HEADER line and the record.
C22_Witness ==
    /\ pc[1] = "done" /\ InServerPass(2) /\ pos[2] = 3
    /\ FieldsAt(CurrentPath(2), 1)[1] = S_TITLE
    /\ FieldsAt(CurrentPath(2), 2)[1] = S_HEADER
    /\ Len(CurrentSegment(2)) = 2

(***************************************************************************)
(* C23.  In the server decoder only a HEADER line of at least 3 fields     *)
(* changes the map of column headers: it sets the entry of the type named  *)
(* by its second field to the fields after it, replacing an earlier entry  *)
(* of that type and leaving the entries of the other types as they were.   *)
(* Every other line leaves the map unchanged, so the entry of a type is    *)
(* always the most recent HEADER of that type before the line being read.  *)
(***************************************************************************)
C23_Step(t) ==
    (pc[t] = "server" /\ pos'[t] = pos[t] + 1) =>
        LET path == CurrentPath(t)
            f == Split(Menu[files'[path].lines[pos'[t]]], separator[t])
            before == locals[t].headersFound
            after == locals'[t].headersFound
        IN /\ IF f[1] = S_HEADER /\ Len(f) >= 3
              THEN /\ DOMAIN after = (DOMAIN before) \cup {f[2]}
                   /\ after[f[2]] = [i \in 1..(Len(f) - 2) |-> f[i + 2]]
                   /\ \A type \in (DOMAIN before) \ {f[2]} : after[type] = before[type]
              ELSE after = before
           /\ \A type \in {S_CLIENT_LIST, S_ROUTING_TABLE} :
                IF \E k \in 1..pos[t] : IsHeaderLineFor(path, k, type)
                THEN /\ type \in DOMAIN before
                     /\ before[type] = AnnouncedColumns(path, pos[t] + 1, type)
                ELSE type \notin DOMAIN before

\* C23: a scan step of the server decoder changes the header map exactly as
\* a HEADER line of at least 3 fields prescribes and not at all otherwise,
\* and the map it starts from holds, per type, the latest HEADER read.
C23_HeaderMapFrame == [][\A t \in Threads : C23_Step(t)]_vars

\* A second CLIENT_LIST header replaced the first while the ROUTING_TABLE
\* header read between them stayed.
C23_Witness ==
    /\ InServerPass(1) /\ pc[1] = "server" /\ pos[1] = 4
    /\ FieldsAt(CurrentPath(1), 2) =
          << S_HEADER, S_CLIENT_LIST, S_Common_Name, S_Username, S_Bytes_Received,
             S_Bytes_Sent >>
    /\ FieldsAt(CurrentPath(1), 3)[2] = S_ROUTING_TABLE
    /\ locals[1].headersFound[S_CLIENT_LIST] =
          << S_Username, S_Common_Name, S_Bytes_Received, S_Bytes_Sent >>
    /\ locals[1].headersFound[S_ROUTING_TABLE] = << S_Common_Name, S_Last_Ref >>

(***************************************************************************)
(* C24.  The state of a decode is fresh for every decode call.  A server   *)
(* decode starts with an empty header map, an empty record of sent label   *)
(* tuples and a client count of 0, whatever the decodes before it left;    *)
(* hence two decodes of the same blob, be they two scrapes of one file or  *)
(* two files of one scrape holding the same lines, send the same           *)
(* observations and return the same result.                                *)
(***************************************************************************)
\* A decoder ran in the pass with result r and read its lines without a
\* read error.
C24_Decoded(r) ==
    r.err.kind \in {"nil", "preceded", "columns", "unsupported", "ParseFloat", "ParseTime"}

\* The lines the pass with result r decoded.
C24_Blob(r) == SubSeq(files[r.path].lines, 1, r.consumed)

\* Observations without their first label, the source.
C24_Unlabelled(seq) == [k \in 1..Len(seq) |-> [seq[k] EXCEPT !.labels = Tail(@)]]

C24_SameTwice ==
    \A t, u \in Threads :
      \A i \in 1..Len(results[t]) :
        \A j \in 1..Len(results[u]) :
           (/\ C24_Decoded(results[t][i]) /\ C24_Decoded(results[u][j])
            /\ C24_Blob(results[t][i]) = C24_Blob(results[u][j])) =>
              /\ results[t][i].err = results[u][j].err
              /\ C24_Unlabelled(Segment(t, i)) = C24_Unlabelled(Segment(u, j))

C24_Step(t) ==
    (pc[t] = "open" /\ pc'[t] = "server") =>
        locals'[t] = [headersFound |-> << >>, numberConnectedClient |-> 0,
                      recordedMetrics |-> << >>]

\* C24: every server decode starts from the empty maps and the count 0, and
\* the passes that decoded the same lines sent the same observations and
\* returned the same result.
C24_FreshDecodeState == [][(\A t \in Threads : C24_Step(t)) /\ C24_SameTwice']_vars

\* Two scrapes decoded the same file of a HEADER and a client: each sent the
\* two observations of the client and the gauge 1.
C24_Witness ==
    /\ Len(results[1]) >= 1 /\ Len(results[2]) >= 1
    /\ results[1][1].err = NilErr /\ results[2][1].err = NilErr
    /\ results[1][1].consumed = 3 /\ results[2][1].consumed = 3
    /\ Len(Segment(1, 1)) = 3 /\ Segment(1, 1) = Segment(2, 1)
    /\ Last(Segment(2, 1)).value = 1

(***************************************************************************)
(* C25.  For a data record of the server decoder that passed the header    *)
(* and field count checks: a label column of the directive the HEADER did  *)
(* not announce is the empty string in the label tuple; a metric of the    *)
(* directive whose column the HEADER did not announce gives no observation *)
(* and no error, the record still counting as a connected client when it   *)
(* is a CLIENT_LIST; a metric whose column is announced is emitted, or     *)
(* fails when its value is not a number.  A metric counts as emitted here  *)
(* also when the identical label tuple was sent for it earlier in the      *)
(* pass, the case in which the observation is to be skipped.               *)
(***************************************************************************)
\* The metrics of the directive of a record type, in its order.
C25_Metrics(type) ==
    IF type = S_CLIENT_LIST
    THEN << [column |-> S_Bytes_Received, vtype |-> "counter",
             desc |-> "openvpn_server_client_received_bytes_total"],
            [column |-> S_Bytes_Sent, vtype |-> "counter",
             desc |-> "openvpn_server_client_sent_bytes_total"] >>
    ELSE << [column |-> S_Last_Ref, vtype |-> "gauge",
             desc |-> "openvpn_server_route_last_reference_time_seconds"] >>

C25_Step(t) ==
    (pc[t] = "server" /\ pos'[t] = pos[t] + 1) =>
        LET path == CurrentPath(t)
            f == Split(Menu[files'[path].lines[pos'[t]]], separator[t])
        IN (/\ f[1] \in {S_CLIENT_LIST, S_ROUTING_TABLE}
            /\ \E k \in 1..pos[t] : IsHeaderLineFor(path, k, f[1])
            /\ Len(f) = Len(AnnouncedColumns(path, pos[t] + 1, f[1])) + 1) =>
           LET names == AnnouncedColumns(path, pos[t] + 1, f[1])
               columns == exporter.openvpnServerHeaders[f[1]].LabelColumns
               tuple == << path >> \o
                        [i \in 1..Len(columns) |->
                           IF LastPosition(names, columns[i]) = 0 THEN << >>
                           ELSE f[LastPosition(names, columns[i]) + 1]]
               metrics == C25_Metrics(f[1])
               announced(i) == LastPosition(names, metrics[i].column) # 0
               val(i) == f[LastPosition(names, metrics[i].column) + 1]
               new == SubSeq(out'[t], Len(out[t]) + 1, Len(out'[t]))
               nothing(i) == \A k \in 1..Len(new) : new[k].desc # metrics[i].desc
               sentBefore(i) ==
                   \E k \in 1..Len(CurrentSegment(t)) :
                      /\ CurrentSegment(t)[k].desc = metrics[i].desc
                      /\ CurrentSegment(t)[k].labels = tuple
               emitted(i) ==
                   \E k \in 1..Len(new) :
                      new[k] = [desc |-> metrics[i].desc, vtype |-> metrics[i].vtype,
                                value |-> Number(val(i)), labels |-> tuple]
               handled(i) == IF announced(i) THEN emitted(i) \/ sentBefore(i)
                             ELSE nothing(i)
               bad == {i \in 1..Len(metrics) : announced(i) /\ ~IsDecimal(val(i))}
           IN /\ \A k \in 1..Len(new) : new[k].labels = tuple
              /\ locals'[t].numberConnectedClient =
                    locals[t].numberConnectedClient
                       + (IF f[1] = S_CLIENT_LIST THEN 1 ELSE 0)
              /\ IF bad = {}
                 THEN /\ ret'[t] = [kind |-> "nil", arg |-> << >>]
                      /\ pc'[t] = "server"
                      /\ \A i \in 1..Len(metrics) : handled(i)
                 ELSE LET first == CHOOSE i \in bad : \A m \in bad : i <= m
                      IN /\ ret'[t] = [kind |-> "ParseFloat", arg |-> val(first)]
                         /\ pc'[t] = "report"
                         /\ \A i \in 1..Len(metrics) :
                               IF i < first THEN handled(i) ELSE nothing(i)

\* C25: a scan step on a data record that passed the checks resolves the
\* unannounced label columns to the empty string, skips the unannounced
\* metrics, counts a CLIENT_LIST record, and emits each announced metric or
\* fails on its value.
C25_ColumnResolution == [][\A t \in Threads : C25_Step(t)]_vars

(***************************************************************************)
(* C26.  In the server decoder an END line of one field, a GLOBAL_STATS    *)
(* line of any number of fields and a TITLE line of two fields do nothing: *)
(* they send no observation and leave the header map, the record of sent   *)
(* label tuples and the client counter as they were, and the decode goes   *)
(* on.  END does not end the decode: a line after it is processed like one *)
(* before it, a data record being exported and an unknown key refused.     *)
(***************************************************************************)
\* An END line is among the lines the pass of call t has read.
C26_AfterEnd(t) ==
    \E k \in 1..pos[t] : FieldsAt(CurrentPath(t), k) = << S_END >>

C26_Step(t) ==
    (pc[t] = "server" /\ pos'[t] = pos[t] + 1) =>
        LET path == CurrentPath(t)
            f == Split(Menu[files'[path].lines[pos'[t]]], separator[t])
        IN /\ (\/ f = << S_END >>
               \/ f[1] = S_GLOBAL_STATS
               \/ (f[1] = S_TITLE /\ Len(f) = 2)) =>
                 /\ out'[t] = out[t]
                 /\ logs'[t] = logs[t]
                 /\ locals'[t] = locals[t]
                 /\ ret'[t] = [kind |-> "nil", arg |-> << >>]
                 /\ pc'[t] = "server"
           /\ (C26_AfterEnd(t)
                 /\ f[1] \notin {S_END, S_GLOBAL_STATS, S_HEADER, S_TIME, S_TITLE,
                                 S_CLIENT_LIST, S_ROUTING_TABLE}) =>
                 /\ ret'[t] = [kind |-> "unsupported", arg |-> f[1]]
                 /\ pc'[t] = "report"
                 /\ out'[t] = out[t]
           /\ (/\ C26_AfterEnd(t)
               /\ f[1] \in {S_CLIENT_LIST, S_ROUTING_TABLE}
               /\ \E k \in 1..pos[t] : IsHeaderLineFor(path, k, f[1])
               /\ Len(f) = Len(AnnouncedColumns(path, pos[t] + 1, f[1])) + 1) =>
                 LET names == AnnouncedColumns(path, pos[t] + 1, f[1])
                     metrics == C25_Metrics(f[1])
                 IN \A i \in 1..Len(metrics) :
                       (/\ LastPosition(names, metrics[i].column) # 0
                        /\ IsDecimal(f[LastPosition(names, metrics[i].column) + 1])
                        /\ \A k \in 1..Len(CurrentSegment(t)) :
                              CurrentSegment(t)[k].desc # metrics[i].desc) =>
                          \E k \in (Len(out[t]) + 1)..Len(out'[t]) :
                             /\ out'[t][k].desc = metrics[i].desc
                             /\ out'[t][k].value =
                                   Number(f[LastPosition(names, metrics[i].column) + 1])

\* C26: a scan step on an END, GLOBAL_STATS or TITLE line changes nothing
\* of the decode, and a step after an END line exports a data record and
\* refuses an unknown key.
C26_NoOpLines == [][\A t \in Threads : C26_Step(t)]_vars

\* A client record that follows END was exported.
C26_Witness ==
    /\ InServerPass(1) /\ pc[1] = "server" /\ pos[1] = 4
    /\ FieldsAt(CurrentPath(1), 2)[1] = S_HEADER
    /\ FieldsAt(CurrentPath(1), 3) = << S_END >>
    /\ Len(CurrentSegment(1)) = 2
    /\ CurrentSegment(1)[1].value = 1
    /\ locals[1].numberConnectedClient = 1

(***************************************************************************)
(* C27.  The API decoder reads labels and values at fixed positions of an  *)
(* item.  client_list: Common Name 0, Real Address 1, Virtual Address 2,   *)
(* Bytes Received 4, Bytes Sent 5, Connected Since (time_t) 7, Username 8. *)
(* routing_table: Virtual Address 0, Common Name 1, Real Address 2,        *)
(* Last Ref (time_t) 4.  Every observation of an item carries the source   *)
(* and the directive's label columns, in its order, read at these          *)
(* positions, and the value read at the position of its metric.            *)
(***************************************************************************)
C27_Position(category, column) ==
    IF category = S_client_list
    THEN CASE column = S_Common_Name -> 0
           [] column = S_Real_Address -> 1
           [] column = S_Virtual_Address -> 2
           [] column = S_Bytes_Received -> 4
           [] column = S_Bytes_Sent -> 5
           [] column = S_Connected_Since -> 7
           [] column = S_Username -> 8
    ELSE CASE column = S_Virtual_Address -> 0
           [] column = S_Common_Name -> 1
           [] column = S_Real_Address -> 2
           [] column = S_Last_Ref -> 4

\* The observation of the metric with the given column for an item.
C27_Observation(category, item, metric, ignoreIndividuals) ==
    LET columns == C21_Columns(IF category = S_client_list THEN S_CLIENT_LIST
                               ELSE S_ROUTING_TABLE, ignoreIndividuals)
    IN [desc |-> metric.desc, vtype |-> metric.vtype,
        value |-> Number(item[C27_Position(category, metric.column) + 1].val),
        labels |-> << S_api >> \o
                   [i \in 1..Len(columns) |->
                       item[C27_Position(category, columns[i]) + 1].val]]

\* The observations of a category's metrics are those of its items.
C27_Category(seq, doc, category, ignoreIndividuals) ==
    LET metrics == C25_Metrics(IF category = S_client_list THEN S_CLIENT_LIST
                               ELSE S_ROUTING_TABLE)
    IN \A i \in 1..Len(metrics) :
         /\ \A p \in C20_Items(doc, category) :
               \E j \in 1..Len(seq) :
                  seq[j] = C27_Observation(category, C20_ItemAt(doc, category, p),
                                           metrics[i], ignoreIndividuals)
         /\ \A j \in 1..Len(seq) :
               (seq[j].desc = metrics[i].desc) =>
                  \E p \in C20_Items(doc, category) :
                     seq[j] = C27_Observation(category, C20_ItemAt(doc, category, p),
                                              metrics[i], ignoreIndividuals)

\* C27: after a decode of a well-formed document that returned no error,
\* the observations of the client and route metrics are exactly those read
\* from the items at the fixed positions.
C27_FixedPositions ==
    \A t \in Threads :
        (/\ exporter.statusType = S_api
         /\ pc[t] = "apireport"
         /\ ret[t] = [kind |-> "nil", arg |-> << >>]
         /\ C19_WellFormed(api[t].doc)) =>
            \A b \in BOOLEAN :
               (exporter = NewOpenVPNExporter(exporter.statusPaths, b,
                                              exporter.statusType)) =>
                  /\ C27_Category(out[t], api[t].doc, S_client_list, b)
                  /\ C27_Category(out[t], api[t].doc, S_routing_table, b)

\* A client and a route were exported under their full identities.
C27_Witness ==
    /\ exporter.statusType = S_api /\ pc[1] = "apireport"
    /\ \E j \in 1..Len(out[1]) :
          out[1][j] = [desc |-> "openvpn_server_client_sent_bytes_total",
                       vtype |-> "counter", value |-> 2,
                       labels |-> << S_api, S_a, <<"7">>, <<"r">>, <<"w">>, <<"u">> >>]
    /\ \E j \in 1..Len(out[1]) :
          out[1][j] = [desc |-> "openvpn_server_route_last_reference_time_seconds",
                       vtype |-> "gauge", value |-> 9,
                       labels |-> << S_api, S_a, <<"r">>, <<"w">> >>]

(***************************************************************************)
(* C28.  In API mode the source identifier given to the decoder, and used  *)
(* as the status_path label of the up metric and of every decoded          *)
(* observation, is the status type "api", not a status path or an instance *)
(* id: the up metrics of all scrapes in API mode have one label identity.  *)
(***************************************************************************)
\* C28: in API mode every observation sent has "api" as its first label,
\* the up metric has no other label, and Collect recorded "api" as source.
C28_ApiSourceLabel ==
    \A t \in Threads :
        (exporter.statusType = <<"a","p","i">>) =>
            /\ \A j \in 1..Len(out[t]) :
                  /\ out[t][j].labels[1] = <<"a","p","i">>
                  /\ (out[t][j].desc = "openvpn_up") =>
                        out[t][j].labels = << <<"a","p","i">> >>
            /\ \A i \in 1..Len(results[t]) : results[t][i].path = <<"a","p","i">>

\* A scrape in API mode ended with the build information of an instance
\* and the up metric 1, both under the source "api".
C28_Witness ==
    /\ exporter.statusType = <<"a","p","i">> /\ pc[1] = "done"
    /\ Len(out[1]) >= 2
    /\ Last(out[1]) = [desc |-> "openvpn_up", vtype |-> "gauge", value |-> 1,
                       labels |-> << <<"a","p","i">> >>]
    /\ \E j \in 1..Len(out[1]) :
          /\ out[1][j].desc = "openvpn_server_build_info"
          /\ out[1][j].labels = << <<"a","p","i">>, S_openvpn_0, S_v >>

(***************************************************************************)
(* C29.  Every observation sent has as many label values as its descriptor *)
(* declares label names, for both values of ignoreIndividuals and both     *)
(* status types: 1 for up, the connected clients gauge and the client      *)
(* counters; 1 (file) or 2 (api) for status_update_time_seconds; 3 for     *)
(* server_build_info; 1 plus the number of the directive's label columns   *)
(* for the CLIENT_LIST and ROUTING_TABLE metrics.  So no metric is ever    *)
(* refused for its number of labels.                                       *)
(***************************************************************************)
\* The number of labels of the metric of the given name.
C29_Labels(name, ignoreIndividuals, statusType) ==
    CASE name = "openvpn_status_update_time_seconds" ->
            IF statusType = <<"a","p","i">> THEN 2 ELSE 1
      [] name = "openvpn_server_build_info" -> 3
      [] name \in {"openvpn_server_client_received_bytes_total",
                   "openvpn_server_client_sent_bytes_total"} ->
            IF ignoreIndividuals THEN 2 ELSE 6
      [] name = "openvpn_server_route_last_reference_time_seconds" ->
            IF ignoreIndividuals THEN 2 ELSE 4
      [] OTHER -> 1

\* The descriptors the exporter holds.
C29_Descs ==
    {exporter.openvpnUpDesc, exporter.openvpnStatusUpdateTimeDesc,
     exporter.openvpnStatusApiBuildInfo, exporter.openvpnConnectedClientsDesc}
    \cup {exporter.openvpnClientDescs[k] : k \in DOMAIN exporter.openvpnClientDescs}
    \cup UNION {{exporter.openvpnServerHeaders[h].Metrics[i].Desc :
                    i \in 1..Len(exporter.openvpnServerHeaders[h].Metrics)} :
                h \in DOMAIN exporter.openvpnServerHeaders}

\* C29: the descriptors declare, and the observations sent carry, the
\* number of labels of their metric, and no Collect call panics on text
\* files or on a well-formed document.
C29_LabelCounts ==
    \A b \in BOOLEAN :
       (exporter = NewOpenVPNExporter(exporter.statusPaths, b, exporter.statusType)) =>
          /\ \A d \in C29_Descs :
                Len(d.labels) = C29_Labels(d.fqName, b, exporter.statusType)
          /\ \A t \in Threads : \A j \in 1..Len(out[t]) :
                Len(out[t][j].labels)
                   = C29_Labels(out[t][j].desc, b, exporter.statusType)
          /\ (\A t \in Threads : C19_WellFormed(api[t].doc)) => proc # "panic"

\* With ignoreIndividuals false a TIME line and a client were exported:
\* one label on the time, six on each of the client's metrics.
C29_Witness ==
    /\ InServerPass(1) /\ pos[1] = 4 /\ Len(CurrentSegment(1)) = 3
    /\ CurrentSegment(1)[1].desc = "openvpn_status_update_time_seconds"
    /\ Len(CurrentSegment(1)[1].labels) = 1
    /\ Len(CurrentSegment(1)[2].labels) = 6
    /\ Len(CurrentSegment(1)[3].labels) = 6

(***************************************************************************)
(* C30.  Within one decode pass of a status file, server or client, no two *)
(* observations sent have both the same metric and the same label tuple,   *)
(* whatever lines the decoder accepted: repeated TIME or Updated lines,    *)
(* repeated client counters and repeated data records included.            *)
(***************************************************************************)
\* No two observations of seq have the same metric and labels.
C30_Distinct(seq) ==
    \A i, j \in 1..Len(seq) :
        (i # j) => ~(seq[i].desc = seq[j].desc /\ seq[i].labels = seq[j].labels)

\* C30: the observations of every pass over a file that was decoded without
\* an error are distinct in metric and label tuple.
C30_NoRepeatedObservation ==
    \A t \in Threads :
        FileMode =>
            \A i \in 1..Len(results[t]) :
                (results[t][i].err = [kind |-> "nil", arg |-> << >>]) =>
                    C30_Distinct(Segment(t, i))

(***************************************************************************)
(* C31.  In the server decoder the duplicate test of a metric comes before *)
(* the parse of its value.  The value of a metric that is suppressed as a  *)
(* duplicate is not parsed: a value that is no number does not fail the    *)
(* decode there, while the same value in a record that is not suppressed   *)
(* ends the decode with the parse error.                                   *)
(***************************************************************************)
\* The duplicate test of a metric: the values of the label tuple all occur
\* among the label values of the observations seg sent for it earlier.
C31_Duplicate(seg, tuple, desc) ==
    LET earlier == {k \in 1..Len(seg) : seg[k].desc = desc}
    IN /\ earlier # {}
       /\ \A n \in 1..Len(tuple) :
             \E k \in earlier : \E m \in 1..Len(seg[k].labels) :
                seg[k].labels[m] = tuple[n]

\* The label tuple of the record f under the announced column names.
C31_Tuple(path, f, names, columns) ==
    << path >> \o
    [i \in 1..Len(columns) |->
       IF LastPosition(names, columns[i]) = 0 THEN << >>
       ELSE f[LastPosition(names, columns[i]) + 1]]

\* The step of call t on the record f with the label tuple, after the
\* observations seg of the pass.
C31_Record(t, f, names, tuple, seg) ==
    LET metrics == C25_Metrics(f[1])
        announced(i) == LastPosition(names, metrics[i].column) # 0
        val(i) == f[LastPosition(names, metrics[i].column) + 1]
        duplicate(i) == C31_Duplicate(seg, tuple, metrics[i].desc)
        noticed(i) ==
            \E k \in (Len(logs[t]) + 1)..Len(logs'[t]) :
               logs'[t][k].column = metrics[i].column
        sent(i) ==
            \E k \in (Len(out[t]) + 1)..Len(out'[t]) :
               out'[t][k].desc = metrics[i].desc
        bad == {i \in 1..Len(metrics) :
                   announced(i) /\ ~duplicate(i) /\ ~IsDecimal(val(i))}
        last == IF bad = {} THEN Len(metrics)
                ELSE (CHOOSE i \in bad : \A m \in bad : i <= m) - 1
    IN /\ \A i \in 1..last :
             announced(i) =>
                IF duplicate(i) THEN noticed(i) /\ ~sent(i)
                ELSE sent(i) /\ ~noticed(i)
       /\ \A i \in (last + 1)..Len(metrics) : ~sent(i) /\ ~noticed(i)
       /\ IF bad = {}
          THEN ret'[t] = [kind |-> "nil", arg |-> << >>] /\ pc'[t] = "server"
          ELSE /\ ret'[t] = [kind |-> "ParseFloat", arg |-> val(last + 1)]
               /\ pc'[t] = "report"

\* The header map of the decode holds, per type, the columns of the latest
\* HEADER line read (C23); the step is stated against it.
C31_Step(t) ==
    (pc[t] = "server" /\ pos'[t] = pos[t] + 1) =>
        \A f \in {Split(Menu[files'[CurrentPath(t)].lines[pos'[t]]], separator[t])} :
           (/\ f[1] \in {S_CLIENT_LIST, S_ROUTING_TABLE}
            /\ f[1] \in DOMAIN locals[t].headersFound
            /\ Len(f) = Len(locals[t].headersFound[f[1]]) + 1) =>
              \A tuple \in {C31_Tuple(CurrentPath(t), f, locals[t].headersFound[f[1]],
                               exporter.openvpnServerHeaders[f[1]].LabelColumns)} :
                 \A seg \in {CurrentSegment(t)} :
                    C31_Record(t, f, locals[t].headersFound[f[1]], tuple, seg)

\* C31: a scan step on a data record fails with the parse error exactly
\* when a metric that is announced and meets no duplicate test holds no
\* number; a metric that meets the test is noticed, not sent and not parsed.
C31_DuplicateTestBeforeParse == [][\A t \in Threads : C31_Step(t)]_vars

\* The record a,b,x,2 followed the record a,b,1,2: both of its metrics were
\* suppressed and the decode went on, although x is no number.
C31_Witness ==
    /\ InServerPass(1) /\ pc[1] = "server" /\ pos[1] = 4
    /\ FieldsAt(CurrentPath(1), 3) = << S_CLIENT_LIST, S_a, S_b, <<"1">>, <<"2">> >>
    /\ FieldsAt(CurrentPath(1), 4) = << S_CLIENT_LIST, S_a, S_b, S_x, <<"2">> >>
    /\ Len(CurrentSegment(1)) = 2
    /\ Len(CurrentLogs(1)) = 2
    /\ ret[1] = NilErr

(***************************************************************************)
(* C32: the duplicate test of a metric looks only at the observations sent *)
(* for that metric earlier in the pass.                                    *)
(***************************************************************************)
\* The observations of seg sent for the metric.
C32_Own(seg, desc) == {k \in 1..Len(seg) : seg[k].desc = desc}

\* Every value of the label tuple occurs in an observation of the metric.
C32_Covered(seg, tuple, desc) ==
    \A n \in 1..Len(tuple) :
       \E k \in C32_Own(seg, desc) : \E m \in 1..Len(seg[k].labels) :
          seg[k].labels[m] = tuple[n]

\* The step of call t on the record f with the label tuple, after the
\* observations seg of the pass.
C32_Record(t, f, names, tuple, seg) ==
    LET metrics == C25_Metrics(f[1])
        announced(i) == LastPosition(names, metrics[i].column) # 0
        val(i) == f[LastPosition(names, metrics[i].column) + 1]
        noticed(i) ==
            \E k \in (Len(logs[t]) + 1)..Len(logs'[t]) :
               logs'[t][k].column = metrics[i].column
        sent(i) ==
            \E k \in (Len(out[t]) + 1)..Len(out'[t]) :
               out'[t][k].desc = metrics[i].desc
        reached(i) == \A j \in 1..(i - 1) : announced(j) => (noticed(j) \/ sent(j))
    IN \A i \in 1..Len(metrics) :
          announced(i) =>
             /\ noticed(i) =>
                   C32_Own(seg, metrics[i].desc) # {} /\ C32_Covered(seg, tuple, metrics[i].desc)
             /\ (/\ reached(i)
                 /\ IsDecimal(val(i))
                 /\ (C32_Own(seg, metrics[i].desc) = {}
                       \/ ~C32_Covered(seg, tuple, metrics[i].desc))) =>
                   sent(i) /\ ~noticed(i)

C32_Step(t) ==
    (pc[t] = "server" /\ pos'[t] = pos[t] + 1) =>
        \A f \in {Split(Menu[files'[CurrentPath(t)].lines[pos'[t]]], separator[t])} :
           (/\ f[1] \in {S_CLIENT_LIST, S_ROUTING_TABLE}
            /\ f[1] \in DOMAIN locals[t].headersFound
            /\ Len(f) = Len(locals[t].headersFound[f[1]]) + 1) =>
              \A tuple \in {C31_Tuple(CurrentPath(t), f, locals[t].headersFound[f[1]],
                               exporter.openvpnServerHeaders[f[1]].LabelColumns)} :
                 \A seg \in {CurrentSegment(t)} :
                    C32_Record(t, f, locals[t].headersFound[f[1]], tuple, seg)

\* C32: a metric of a record is suppressed only when observations sent for
\* that very metric earlier in the pass hold every value of the record's
\* label tuple; otherwise, once the loop reaches it and its value is a
\* number, it is sent, whatever was sent for the other metrics.
C32_SuppressionPerMetric == [][\A t \in Threads : C32_Step(t)]_vars

\* With the individuals ignored, the route of a was sent after the client
\* record of a although both carry the label tuple (path, a).
C32_Witness ==
    /\ InServerPass(1) /\ pos[1] = 5
    /\ FieldsAt(CurrentPath(1), 3) = << S_CLIENT_LIST, S_a, <<"1">> >>
    /\ FieldsAt(CurrentPath(1), 5) = << S_ROUTING_TABLE, S_a, <<"9">> >>
    /\ Len(CurrentSegment(1)) = 2
    /\ CurrentSegment(1)[1].desc = "openvpn_server_client_received_bytes_total"
    /\ CurrentSegment(1)[2].desc = "openvpn_server_route_last_reference_time_seconds"
    /\ CurrentSegment(1)[2].labels = CurrentSegment(1)[1].labels
    /\ CurrentLogs(1) = << >>

\* Of the record a,b,1,2 the received bytes were suppressed, a having sent
\* them under the shorter HEADER, and the sent bytes were sent.
C32_WitnessBytes ==
    /\ InServerPass(1) /\ pos[1] = 5
    /\ FieldsAt(CurrentPath(1), 3) = << S_CLIENT_LIST, S_a, <<"1">> >>
    /\ FieldsAt(CurrentPath(1), 5) = << S_CLIENT_LIST, S_a, S_b, <<"1">>, <<"2">> >>
    /\ Len(CurrentSegment(1)) = 2
    /\ CurrentSegment(1)[2].desc = "openvpn_server_client_sent_bytes_total"
    /\ Len(CurrentLogs(1)) = 1
    /\ CurrentLogs(1)[1].column = S_Bytes_Received

(***************************************************************************)
(* C33: in file mode every decode ends and every Collect call returns      *)
(* after the up metric of its last source.                                 *)
(***************************************************************************)
\* Collect call t returned: every source has its result and the last
\* observation sent is the up metric of the last source.
C33_Returned(t) ==
    /\ pc[t] = "done"
    /\ Len(results[t]) = Len(exporter.statusPaths)
    /\ Len(exporter.statusPaths) > 0 =>
          /\ Len(out[t]) > 0
          /\ out[t][Len(out[t])].desc = "openvpn_up"
          /\ out[t][Len(out[t])].labels =
                << exporter.statusPaths[Len(exporter.statusPaths)] >>

\* Collect call t is in the loop of a decoder.
C33_Decoding(t) == pc[t] \in {"server", "client"}

\* A step of a decode reads the line after the lines read so far.
C33_InOrder(t) ==
    (pc[t] \in {"server", "client"} /\ pos'[t] # pos[t]) =>
        /\ pos'[t] = pos[t] + 1
        /\ pos'[t] <= Len(files'[CurrentPath(t)].lines)
        /\ \A k \in 1..pos[t] :
              files'[CurrentPath(t)].lines[k] = files[CurrentPath(t)].lines[k]

\* A decode that returned nil read every line of the blob; one that
\* returned the error of a line read no line after it.
C33_Ended(t) ==
    \A i \in 1..Len(results[t]) :
       LET r == results[t][i]
       IN /\ r.consumed <= Len(files[r.path].lines)
          /\ (r.err.kind = "nil" /\ files[r.path].state = "present") =>
                r.consumed = Len(files[r.path].lines) /\ files[r.path].complete

\* C33: a decode reads the lines of its blob one by one in their order and
\* ends, at the end of the stream or at the first error; a Collect call in
\* file mode returns, the up metric of its last source being the last
\* observation it sent.
C33_Terminates ==
    /\ [][\A t \in Threads : C33_InOrder(t)]_vars
    /\ [](\A t \in Threads : C33_Ended(t))
    /\ \A t \in Threads : C33_Decoding(t) ~> ~C33_Decoding(t)
    /\ \A t \in Threads : (pc[t] = "idle") ~> C33_Returned(t)

\* A Collect call returned after a decode that read three lines.
C33_Witness ==
    /\ C33_Returned(1)
    /\ Len(exporter.statusPaths) > 0
    /\ \E i \in 1..Len(results[1]) :
          results[1][i].consumed >= 3 /\ results[1][i].err.kind = "nil"

(***************************************************************************)
(* C34: the API decoder visits the instances and the categories of the     *)
(* document in the order of Go's map iteration, which is not fixed.  The   *)
(* outcome of a decode is compared with the outcome of visiting the same   *)
(* document in one fixed order.                                            *)
(***************************************************************************)
RECURSIVE C34_Categories(_, _, _, _)
\* The categories left of an instance, visited in a fixed order after acc.
C34_Categories(instanceId, data, left, acc) ==
    IF left = {} \/ acc.err.kind # "nil" \/ acc.panic THEN acc
    ELSE LET category == CHOOSE c \in left : TRUE
             o == ApiCategory(exporter, exporter.statusType, instanceId, category,
                              data[category], acc.locals)
         IN C34_Categories(instanceId, data, left \ {category},
                           [acc EXCEPT !.locals = o.locals, !.emit = @ \o o.emit,
                                       !.err = o.err, !.panic = o.panic])

RECURSIVE C34_Instances(_, _, _)
\* The instances left of a document, visited in a fixed order after acc.
C34_Instances(doc, left, acc) ==
    IF left = {} \/ acc.err.kind # "nil" \/ acc.panic THEN acc
    ELSE LET instanceId == CHOOSE i \in left : TRUE
         IN C34_Instances(doc, left \ {instanceId},
               IF doc[instanceId].type = "object"
               THEN C34_Categories(instanceId, doc[instanceId].val,
                                   DOMAIN doc[instanceId].val, acc)
               ELSE acc)

\* The outcome of decoding the document in the fixed order.
C34_Reference(doc) ==
    LET o == C34_Instances(doc, DOMAIN doc,
                           [locals |-> 0, emit |-> << >>, logs |-> << >>,
                            err |-> [kind |-> "nil", arg |-> << >>], panic |-> FALSE])
    IN IF o.err.kind = "nil" /\ ~o.panic
       THEN [o EXCEPT !.emit = Append(@,
                [desc |-> "openvpn_server_connected_clients", vtype |-> "gauge",
                 value |-> o.locals, labels |-> << exporter.statusType >>])]
       ELSE o

\* The sequences a and b hold the same elements the same number of times.
C34_SameMultiset(a, b) ==
    \A x \in {a[i] : i \in 1..Len(a)} \cup {b[i] : i \in 1..Len(b)} :
       Cardinality({i \in 1..Len(a) : a[i] = x}) = Cardinality({i \in 1..Len(b) : b[i] = x})

\* C34: when the API decoder has returned, its result and the multiset of
\* the observations it sent are those of visiting the document in the fixed
\* order: the outcome does not depend on the visiting order.
C34_OrderIndependent ==
    \A t \in Threads :
       (pc[t] = "apireport" /\ ret[t].kind # "json") =>
          \A ref \in {C34_Reference(api[t].doc)} :
             /\ ~ref.panic
             /\ ret[t] = ref.err
             /\ C34_SameMultiset(out[t], ref.emit)

(***************************************************************************)
(* C35: the exporter with instance names.  The map main builds from the    *)
(* flag is compared with the map read off the text of the flag, and the up *)
(* metrics of a Collect call with the entries of the map.                  *)
(***************************************************************************)
\* The position of the k-th occurrence of the character c in s; 0 before
\* the first and Len(s) + 1 after the last.
C35_Cut(s, c, k) ==
    LET at == {i \in 1..Len(s) : s[i] = c}
    IN IF k = 0 THEN 0
       ELSE IF k > Cardinality(at) THEN Len(s) + 1
       ELSE CHOOSE i \in at : Cardinality({j \in at : j < i}) = k - 1

\* The number of occurrences of the character c in s.
C35_Count(s, c) == Cardinality({i \in 1..Len(s) : s[i] = c})

\* The comma-separated segments of the flag.
C35_Segments(flag) ==
    [k \in 1..(C35_Count(flag, ",") + 1) |->
        SubSeq(flag, C35_Cut(flag, ",", k - 1) + 1, C35_Cut(flag, ",", k) - 1)]

\* The instance name and the path a segment stands for.
C35_Name(segment) == SubSeq(segment, 1, C35_Cut(segment, ":", 1) - 1)
C35_Path(segment) ==
    IF C35_Count(segment, ":") = 0 THEN segment
    ELSE SubSeq(segment, C35_Cut(segment, ":", 1) + 1, Len(segment))

\* The segments that are not skipped.
C35_Kept(segments) ==
    {k \in 1..Len(segments) :
        /\ C35_Count(segments[k], ":") <= 1
        /\ C35_Name(segments[k]) # << >>
        /\ C35_Path(segments[k]) # << >>}

\* The map the segments stand for: per instance name the path of the last
\* segment kept for it.
C35_Map(segments, kept) ==
    [name \in {C35_Name(segments[k]) : k \in kept} |->
        LET last == CHOOSE k \in kept :
                       /\ C35_Name(segments[k]) = name
                       /\ \A m \in kept : C35_Name(segments[m]) = name => m <= k
        IN C35_Path(segments[last])]

\* The up metrics Collect call t sent.
C35_Ups(t) == {i \in 1..Len(out[t]) : out[t][i].desc = "openvpn_up"}

\* C35: the exporter holds the map the flag stands for; a Collect call sends
\* at most one up metric per instance name, labelled with the path and the
\* name of an entry of the map, and has sent one for every entry when it
\* returns.
C35_OneUpPerInstance ==
    \A segments \in {C35_Segments(openvpnStatusPaths)} :
    \A map \in {C35_Map(segments, C35_Kept(segments))} :
       /\ exporter.statusPaths = map
       /\ \A t \in Threads :
             /\ \A i \in C35_Ups(t) :
                   /\ Len(out[t][i].labels) = 2
                   /\ out[t][i].labels[2] \in DOMAIN map
                   /\ out[t][i].labels[1] = map[out[t][i].labels[2]]
             /\ \A i, j \in C35_Ups(t) :
                   out[t][i].labels[2] = out[t][j].labels[2] => i = j
             /\ pc[t] = "done" =>
                   \A name \in DOMAIN map :
                      \E i \in C35_Ups(t) : out[t][i].labels[2] = name

\* Collect returned under the flag a:p,p,a:q: two up metrics, one of the
\* instance p at the path p and one of the instance a at the path q.
C35_Witness ==
    /\ openvpnStatusPaths =
          <<"a", ":", "p", ",", "p", ",", "a", ":", "q">>
    /\ pc[1] = "done"
    /\ Cardinality(C35_Ups(1)) = 2
    /\ \E i \in C35_Ups(1) : out[1][i].labels = << <<"q">>, <<"a">> >>
    /\ \E i \in C35_Ups(1) : out[1][i].labels = << <<"p">>, <<"p">> >>
====
